---- MODULE Spec2Model ----
(***************************************************************************)
(* FileScopeMCP: the dependency-graph engine of file-utils.ts (scan,       *)
(* buildDependentMap, importance scoring, incremental add / remove) and    *)
(* the tools of mcp-server.ts that drive it.                               *)
(*                                                                         *)
(* A JavaScript string is a sequence of one-character strings, so that the *)
(* string functions of the source (normalizePath, endsWith, split, the     *)
(* path module) are computed character by character.  A JavaScript number  *)
(* stored in `importance` is an integer count of 1/Resolution points, so   *)
(* that a non-integer argument of set_file_importance can be written.      *)
(***************************************************************************)
EXTENDS Integers, Sequences, FiniteSets, TLC

(***************************************************************************)
(* JavaScript String methods                                               *)
(***************************************************************************)
RECURSIVE indexOfFrom(_, _, _)
indexOfFrom(s, sub, i) ==
    IF i + Len(sub) - 1 > Len(s) THEN 0
    ELSE IF SubSeq(s, i, i + Len(sub) - 1) = sub THEN i
    ELSE indexOfFrom(s, sub, i + 1)

\* 1-based position of the first occurrence of sub in s, 0 when there is none
indexOf(s, sub) == indexOfFrom(s, sub, 1)

includes(s, sub) ==
    \E i \in 1..(Len(s) - Len(sub) + 1) : SubSeq(s, i, i + Len(sub) - 1) = sub

hasChar(s, c) == \E i \in 1..Len(s) : s[i] = c

startsWith(s, pre) == Len(pre) <= Len(s) /\ SubSeq(s, 1, Len(pre)) = pre

endsWith(s, suf) ==
    Len(suf) <= Len(s) /\ SubSeq(s, Len(s) - Len(suf) + 1, Len(s)) = suf

\* s.split(sep) for a non-empty separator
RECURSIVE split(_, _)
split(s, sep) ==
    LET i == indexOf(s, sep)
    IN  IF i = 0 THEN <<s>>
        ELSE <<SubSeq(s, 1, i - 1)>> \o split(SubSeq(s, i + Len(sep), Len(s)), sep)

\* parts.join(sep)
RECURSIVE join(_, _)
join(parts, sep) ==
    IF parts = <<>> THEN <<>>
    ELSE IF Len(parts) = 1 THEN parts[1]
    ELSE parts[1] \o sep \o join(Tail(parts), sep)

\* s.replace(/c/g, by) for a one-character pattern c
RECURSIVE replaceChar(_, _, _)
replaceChar(s, c, by) ==
    IF ~hasChar(s, c) THEN s
    ELSE (IF Head(s) = c THEN by ELSE <<Head(s)>>) \o replaceChar(Tail(s), c, by)

\* s.replace(/\/+/g, '/')
RECURSIVE collapseSlashes(_)
collapseSlashes(s) ==
    IF ~(\E i \in 1..(Len(s) - 1) : s[i] = "/" /\ s[i + 1] = "/") THEN s
    ELSE IF Head(s) = "/" /\ Len(s) > 1 /\ s[2] = "/" THEN collapseSlashes(Tail(s))
    ELSE <<Head(s)>> \o collapseSlashes(Tail(s))

UpperCase == <<"A", "B", "C", "F", "M", "P", "S", "T">>
LowerCase == <<"a", "b", "c", "f", "m", "p", "s", "t">>

lowerChar(c) ==
    IF \E i \in 1..Len(UpperCase) : UpperCase[i] = c
    THEN LowerCase[CHOOSE i \in 1..Len(UpperCase) : UpperCase[i] = c]
    ELSE c

toLowerCase(s) == [i \in 1..Len(s) |-> lowerChar(s[i])]

isLetter(c) ==
    \/ \E i \in 1..Len(UpperCase) : UpperCase[i] = c
    \/ \E i \in 1..Len(LowerCase) : LowerCase[i] = c
    \/ c \in {"d", "e", "f", "g", "i", "j", "k", "l", "m", "n", "o", "r", "u", "x"}

(***************************************************************************)
(* decodeURIComponent, on the escapes the model's alphabet can spell.      *)
(* The result is [ok |-> FALSE] where the source's call throws URIError.   *)
(***************************************************************************)
HexPairs == <<
    <<"2", "5", "%">>, <<"2", "2", "\"">>, <<"2", "F", "/">>, <<"2", "f", "/">>,
    <<"5", "C", "\\">>, <<"5", "c", "\\">>, <<"2", "0", " ">> >>

RECURSIVE decodeFrom(_)
decodeFrom(s) ==
    IF s = <<>> THEN [ok |-> TRUE, out |-> <<>>]
    ELSE IF Head(s) # "%" THEN
        LET rest == decodeFrom(Tail(s))
        IN  [ok |-> rest.ok, out |-> <<Head(s)>> \o rest.out]
    ELSE IF Len(s) < 3 THEN [ok |-> FALSE, out |-> <<>>]
    ELSE IF \E k \in 1..Len(HexPairs) : HexPairs[k][1] = s[2] /\ HexPairs[k][2] = s[3]
    THEN LET k == CHOOSE k \in 1..Len(HexPairs) :
                      HexPairs[k][1] = s[2] /\ HexPairs[k][2] = s[3]
             rest == decodeFrom(SubSeq(s, 4, Len(s)))
         IN  [ok |-> rest.ok, out |-> <<HexPairs[k][3]>> \o rest.out]
    ELSE [ok |-> FALSE, out |-> <<>>]

decodeURIComponent(s) == decodeFrom(s)

(***************************************************************************)
(* normalizePath                                                           *)
(***************************************************************************)
\* the steps of normalizePath after the decoding
normalizeDecoded(decoded) ==
    LET cleanPath ==
            IF Len(decoded) >= 3 /\ decoded[1] = "/" /\ decoded[3] = ":"
               /\ isLetter(decoded[2])
            THEN Tail(decoded) ELSE decoded
        deduped == collapseSlashes(
                       replaceChar(replaceChar(cleanPath, "\\", <<"/">>), "\"", <<>>))
    IN  IF endsWith(deduped, <<"/">>) THEN SubSeq(deduped, 1, Len(deduped) - 1)
        ELSE deduped

\* a catch that goes on to normalize the string it could not decode
normalizeUndecoded(filepath, dec) ==
    normalizeDecoded(IF dec.ok THEN dec.out ELSE filepath)

\* the catch of normalizePath: a path that does not decode is returned as it came
normalizeOrOriginal(filepath, dec) ==
    IF dec.ok THEN normalizeDecoded(dec.out) ELSE filepath

normalizePath(filepath) ==
    IF filepath = <<>> THEN <<>>
    ELSE IF hasChar(filepath, "%")
    THEN normalizeOrOriginal(filepath, decodeURIComponent(filepath))
    ELSE normalizeDecoded(filepath)

(***************************************************************************)
(* The POSIX path module of Node.js                                        *)
(***************************************************************************)
\* normalizeString: resolves "." and ".." segments and drops empty ones
RECURSIVE normalizeSegs(_, _, _)
normalizeSegs(segs, acc, allowAboveRoot) ==
    IF segs = <<>> THEN acc
    ELSE LET h == Head(segs) IN
         IF h = <<>> \/ h = <<".">> THEN normalizeSegs(Tail(segs), acc, allowAboveRoot)
         ELSE IF h = <<".", ".">> THEN
              IF acc # <<>> /\ acc[Len(acc)] # <<".", ".">>
              THEN normalizeSegs(Tail(segs), SubSeq(acc, 1, Len(acc) - 1), allowAboveRoot)
              ELSE IF allowAboveRoot
                   THEN normalizeSegs(Tail(segs), Append(acc, h), allowAboveRoot)
                   ELSE normalizeSegs(Tail(segs), acc, allowAboveRoot)
         ELSE normalizeSegs(Tail(segs), Append(acc, h), allowAboveRoot)

\* path.normalize, given the normalized segments joined by "/"
withSeparators(isAbsolute, trailing, body) ==
    LET tail == IF body = <<>> /\ ~isAbsolute THEN <<".">>
                ELSE IF body # <<>> /\ trailing THEN body \o <<"/">>
                ELSE body
    IN  IF isAbsolute THEN <<"/">> \o tail ELSE tail

pathNormalize(p) ==
    IF p = <<>> THEN <<".">>
    ELSE withSeparators(p[1] = "/", p[Len(p)] = "/",
             join(normalizeSegs(split(p, <<"/">>), <<>>, p[1] # "/"), <<"/">>))

\* path.join(a, b)
pathJoin(a, b) ==
    IF a = <<>> /\ b = <<>> THEN <<".">>
    ELSE IF a = <<>> THEN pathNormalize(b)
    ELSE IF b = <<>> THEN pathNormalize(a)
    ELSE pathNormalize(a \o <<"/">> \o b)

\* process.cwd(): the server changes into the project root when it starts
Cwd == <<"/", "p">>

\* path.resolve(p)
pathResolve1(p) ==
    LET abs == IF startsWith(p, <<"/">>) THEN p ELSE Cwd \o <<"/">> \o p
    IN  <<"/">> \o join(normalizeSegs(split(abs, <<"/">>), <<>>, FALSE), <<"/">>)

\* path.resolve(from, to)
pathResolve(from, to) ==
    IF startsWith(to, <<"/">>) THEN pathResolve1(to)
    ELSE IF to = <<>> THEN pathResolve1(from)
    ELSE pathResolve1(from \o <<"/">> \o to)

RECURSIVE stripTrailingSlashes(_)
stripTrailingSlashes(p) ==
    IF Len(p) > 1 /\ p[Len(p)] = "/" THEN stripTrailingSlashes(SubSeq(p, 1, Len(p) - 1))
    ELSE p

RECURSIVE lastIndexOfChar(_, _)
lastIndexOfChar(s, c) ==
    IF s = <<>> THEN 0
    ELSE IF s[Len(s)] = c THEN Len(s)
    ELSE lastIndexOfChar(SubSeq(s, 1, Len(s) - 1), c)

\* path.dirname of a path without trailing slashes, its last slash at i
dirnameAt(q, i) ==
    IF i = 0 THEN <<".">>
    ELSE IF i = 1 THEN <<"/">>
    ELSE stripTrailingSlashes(SubSeq(q, 1, i - 1))

dirnameOf(q) == dirnameAt(q, lastIndexOfChar(q, "/"))

pathDirname(p) ==
    IF p = <<>> THEN <<".">> ELSE dirnameOf(stripTrailingSlashes(p))

basenameOf(q) ==
    IF q = <<"/">> THEN <<>> ELSE SubSeq(q, lastIndexOfChar(q, "/") + 1, Len(q))

pathBasename(p) == basenameOf(stripTrailingSlashes(p))

\* path.extname of a base name whose last dot is at i
extnameAt(b, i) ==
    IF i <= 1 \/ b = <<".", ".">> THEN <<>> ELSE SubSeq(b, i, Len(b))

extnameOf(b) == extnameAt(b, lastIndexOfChar(b, "."))

pathExtname(p) == extnameOf(pathBasename(p))

withoutExt(b, ext) ==
    IF ext # <<>> /\ b # ext /\ endsWith(b, ext)
    THEN SubSeq(b, 1, Len(b) - Len(ext)) ELSE b

\* path.basename(p, ext)
pathBasenameExt(p, ext) == withoutExt(pathBasename(p), ext)

RECURSIVE commonPrefixLen(_, _)
commonPrefixLen(a, b) ==
    IF a = <<>> \/ b = <<>> \/ Head(a) # Head(b) THEN 0
    ELSE 1 + commonPrefixLen(Tail(a), Tail(b))

\* path.relative, given the segments of the two resolved paths
relativeOf(fs, ts, n) ==
    join([i \in 1..(Len(fs) - n) |-> <<".", ".">>] \o SubSeq(ts, n + 1, Len(ts)), <<"/">>)

relativeSegs(fs, ts) ==
    IF fs = ts THEN <<>> ELSE relativeOf(fs, ts, commonPrefixLen(fs, ts))

\* path.relative(from, to)
pathRelative(from, to) ==
    relativeSegs(normalizeSegs(split(pathResolve1(from), <<"/">>), <<>>, FALSE),
                 normalizeSegs(split(pathResolve1(to), <<"/">>), <<>>, FALSE))

(***************************************************************************)
(* String literals of the source                                           *)
(***************************************************************************)
S_ts == <<".", "t", "s">>
S_tsx == <<".", "t", "s", "x">>
S_js == <<".", "j", "s">>
S_jsx == <<".", "j", "s", "x">>
S_json == <<".", "j", "s", "o", "n">>
S_md == <<".", "m", "d">>
S_src == <<"s", "r", "c">>
S_test == <<"t", "e", "s", "t">>
S_tests == <<"t", "e", "s", "t", "s">>
S_package == <<"p", "a", "c", "k", "a", "g", "e">>
S_tsconfig == <<"t", "s", "c", "o", "n", "f", "i", "g">>
S_readme == <<"r", "e", "a", "d", "m", "e">>
S_git == <<".", "g", "i", "t">>
S_node_modules == <<"n", "o", "d", "e", "_", "m", "o", "d", "u", "l", "e", "s">>
S_test_excluded == <<"t", "e", "s", "t", "_", "e", "x", "c", "l", "u", "d", "e", "d">>
S_excludes == <<"F", "i", "l", "e", "S", "c", "o", "p", "e", "M", "C", "P", "-",
                "e", "x", "c", "l", "u", "d", "e", "s", ".", "j", "s", "o", "n">>
S_sdk == <<"@", "m", "o", "d", "e", "l", "c", "o", "n", "t", "e", "x", "t",
           "p", "r", "o", "t", "o", "c", "o", "l", "/", "s", "d", "k">>

significantNames == {
    <<"i", "n", "d", "e", "x">>, <<"m", "a", "i", "n">>,
    <<"s", "e", "r", "v", "e", "r">>, <<"a", "p", "p">>,
    <<"c", "o", "n", "f", "i", "g">>, <<"t", "y", "p", "e", "s">>,
    <<"u", "t", "i", "l", "s">> }

\* the extensions IMPORT_PATTERNS has a pattern for
IMPORT_PATTERNS == {
    S_js, S_jsx, S_ts, S_tsx, <<".", "p", "y">>, <<".", "c">>, <<".", "c", "p", "p">>,
    <<".", "h">>, <<".", "r", "s">>, <<".", "l", "u", "a">>, <<".", "z", "i", "g">> }

\* possibleExtensions, in probe order
possibleExtensions == <<S_ts, S_tsx, S_js, S_jsx, <<>>>>

(***************************************************************************)
(* Numbers: `importance` is kept in units of 1/Resolution of a point.      *)
(***************************************************************************)
Resolution == 2

\* importance?: number, left unset (a directory node)
Undefined == -1

Min(a, b) == IF a < b THEN a ELSE b
Max(a, b) == IF a > b THEN a ELSE b

\* Math.round of v/Resolution, in the same units (halves round up)
MathRound(v) == ((2 * v + Resolution) \div (2 * Resolution)) * Resolution

(***************************************************************************)
(* calculateInitialImportance                                              *)
(***************************************************************************)
\* the three terms of calculateInitialImportance
initialImportanceOf(ext, parts, fileName) ==
    LET byType ==
            IF ext \in {S_ts, S_tsx} THEN 3
            ELSE IF ext \in {S_js, S_jsx} THEN 2
            ELSE IF ext = S_json
                 THEN (IF fileName \in {S_package, S_tsconfig} THEN 3 ELSE 1)
            ELSE IF ext = S_md
                 THEN (IF toLowerCase(fileName) = S_readme THEN 2 ELSE 1)
            ELSE 0
        byLocation ==
            IF parts[1] = S_src THEN 2
            ELSE IF parts[1] \in {S_test, S_tests} THEN 1
            ELSE 0
        byName == IF toLowerCase(fileName) \in significantNames THEN 2 ELSE 0
    IN  Min(byType + byLocation + byName, 10) * Resolution

initialImportanceWith(filePath, baseDir, ext) ==
    initialImportanceOf(ext, split(pathRelative(baseDir, filePath), <<"/">>),
                        pathBasenameExt(filePath, ext))

calculateInitialImportance(filePath, baseDir) ==
    initialImportanceWith(filePath, baseDir, pathExtname(filePath))

(***************************************************************************)
(* resolveImportPath                                                       *)
(***************************************************************************)
resolveImportPath(importPath0, currentFilePath, baseDir) ==
    LET importPath ==
            IF (endsWith(currentFilePath, S_ts) \/ endsWith(currentFilePath, S_tsx))
               /\ endsWith(importPath0, S_js)
            THEN SubSeq(importPath0, 1, Len(importPath0) - Len(S_js)) \o S_ts
            ELSE importPath0
    IN  IF startsWith(importPath, <<".">>)
        THEN pathNormalize(pathResolve(pathDirname(currentFilePath), importPath))
        ELSE IF startsWith(importPath, <<"/">>)
        THEN pathNormalize(pathJoin(baseDir, importPath))
        ELSE pathNormalize(pathJoin(pathJoin(baseDir, S_node_modules), importPath))

(***************************************************************************)
(* PackageDependency.fromPath.  A package record keeps name, scope and     *)
(* path; an unset string field is the empty string.                        *)
(***************************************************************************)
fromPath(path) ==
    IF includes(path, S_node_modules)
    THEN LET parts == split(path, S_node_modules \o <<"/">>)
         IN  IF Len(parts) > 1
             THEN LET scopedParts == split(parts[2], <<"/">>)
                      pkgPart == scopedParts[1]
                  IN  IF startsWith(pkgPart, <<"@">>)
                      THEN IF Len(scopedParts) > 1
                           THEN [name |-> scopedParts[1] \o <<"/">> \o scopedParts[2],
                                 scope |-> scopedParts[1], path |-> path]
                           ELSE [name |-> <<>>, scope |-> <<>>, path |-> path]
                      ELSE [name |-> pkgPart, scope |-> <<>>, path |-> path]
             ELSE [name |-> <<>>, scope |-> <<>>, path |-> path]
    ELSE \* a path outside node_modules: the last part names the package
         LET parts == split(path, <<"/">>)
         IN  IF startsWith(parts[1], <<"@">>) /\ Len(parts) > 1
             THEN [name |-> parts[1] \o <<"/">> \o parts[2], scope |-> parts[1],
                   path |-> path]
             ELSE [name |-> parts[Len(parts)], scope |-> <<>>, path |-> path]

(***************************************************************************)
(* The file tree.  A FileNode is a record; a field the source leaves unset *)
(* is the empty sequence (children, dependencies, dependents) or Undefined *)
(* (importance).  A node of a tree is named by its address, the sequence   *)
(* of child indexes leading to it from the root.                           *)
(***************************************************************************)
DirectoryNode(path, children) ==
    [path |-> path, name |-> pathBasename(path), isDirectory |-> TRUE,
     children |-> children, dependencies |-> <<>>, packageDependencies |-> <<>>,
     dependents |-> <<>>, importance |-> Undefined]

\* `found` holds the dependencies and packageDependencies read from the file
FileNode(path, name, found, importance) ==
    [path |-> path, name |-> name, isDirectory |-> FALSE,
     children |-> <<>>, dependencies |-> found.dependencies,
     packageDependencies |-> found.packageDependencies,
     dependents |-> <<>>, importance |-> importance]

NoImports == [dependencies |-> <<>>, packageDependencies |-> <<>>]

RECURSIVE nodeAt(_, _)
nodeAt(tree, addr) ==
    IF addr = <<>> THEN tree ELSE nodeAt(tree.children[Head(addr)], Tail(addr))

RECURSIVE replaceAt(_, _, _)
replaceAt(tree, addr, node) ==
    IF addr = <<>> THEN node
    ELSE [tree EXCEPT !.children[Head(addr)] = replaceAt(@, Tail(addr), node)]

\* the addresses of all nodes, in the pre-order every traversal of the source uses
RECURSIVE traverse(_, _)
RECURSIVE traverseChildren(_, _, _)
traverse(node, addr) == <<addr>> \o traverseChildren(node, addr, 1)
traverseChildren(node, addr, i) ==
    IF i > Len(node.children) THEN <<>>
    ELSE traverse(node.children[i], Append(addr, i)) \o traverseChildren(node, addr, i + 1)

\* getAllFileNodes: the addresses of the file nodes
getAllFileNodes(root) ==
    LET isFile(a) == ~nodeAt(root, a).isDirectory
    IN  SelectSeq(traverse(root, <<>>), isFile)

\* findNodeByPath: <<address>> of the first node, in pre-order, whose normalized
\* path is the normalized target; <<>> for null
RECURSIVE findNodeByPathFrom(_, _, _)
RECURSIVE findNodeByPathIn(_, _, _, _)
findNodeByPathFrom(node, addr, targetPath) ==
    IF normalizePath(node.path) = normalizePath(targetPath) THEN <<addr>>
    ELSE IF node.isDirectory THEN findNodeByPathIn(node, addr, targetPath, 1)
    ELSE <<>>
findNodeByPathIn(node, addr, targetPath, i) ==
    IF i > Len(node.children) THEN <<>>
    ELSE LET found == findNodeByPathFrom(node.children[i], Append(addr, i), targetPath)
         IN  IF found # <<>> THEN found
             ELSE findNodeByPathIn(node, addr, targetPath, i + 1)

findNodeByPath(tree, targetPath) == findNodeByPathFrom(tree, <<>>, targetPath)

seqIncludes(s, x) == \E i \in 1..Len(s) : s[i] = x

\* array.splice(index): the deleteCount left out, which drops the rest of the array
spliceToEnd(s, index) == SubSeq(s, 1, index - 1)

\* array.splice(index, 1)
spliceOut(s, index) == SubSeq(s, 1, index - 1) \o SubSeq(s, index + 1, Len(s))

\* array.findIndex / indexOf: the first position, 0 when there is none (-1 in the source)
RECURSIVE firstIndexFrom(_, _, _)
firstIndexFrom(s, Test(_), i) ==
    IF i > Len(s) THEN 0
    ELSE IF Test(s[i]) THEN i
    ELSE firstIndexFrom(s, Test, i + 1)

firstIndex(s, Test(_)) == firstIndexFrom(s, Test, 1)

(***************************************************************************)
(* The file system.  Root, Root/src, Root/.git and Root/src/node_modules   *)
(* are directories; `disk` is the set of files that exist and              *)
(* fileContent[f] the import statements a file holds, each with the syntax *)
(* it is written in and its import string.                                 *)
(***************************************************************************)
Root == <<"/", "p">>
SrcDir == Root \o <<"/">> \o S_src
FileA == Root \o <<"/", "a">> \o S_ts
FileB == Root \o <<"/", "b">> \o S_ts
FileS == SrcDir \o <<"/", "a">> \o S_ts

GitDir == Root \o <<"/">> \o S_git
ModulesDir == SrcDir \o <<"/">> \o S_node_modules
FileG == GitDir \o <<"/", "a">> \o S_ts
FileM == ModulesDir \o <<"/", "a">> \o S_ts

\* the file getConfig reads the custom exclude patterns from
ExcludesFile == Root \o <<"/">> \o S_excludes

Directories == {Root, SrcDir, GitDir, ModulesDir}
Files == {FileA, FileB, FileS}

Import(kind, spec) == [kind |-> kind, spec |-> spec]

exists(d, p) == p \in d \/ p \in Directories

\* localeCompare on the model's alphabet: punctuation, digits, letters
Collation == <<"_", "-", ".", "/", "@", "0", "2", "5", "a", "A", "b", "B", "c", "C",
               "d", "e", "f", "F", "g", "i", "j", "k", "l", "m", "M", "n", "o", "p", "P",
               "r", "s", "S", "t", "T", "u", "x">>

rank(c) == IF \E i \in 1..Len(Collation) : Collation[i] = c
           THEN CHOOSE i \in 1..Len(Collation) : Collation[i] = c
           ELSE 0

RECURSIVE localeCompare(_, _)
localeCompare(a, b) ==
    IF a = <<>> /\ b = <<>> THEN 0
    ELSE IF a = <<>> THEN -1
    ELSE IF b = <<>> THEN 1
    ELSE IF Head(a) = Head(b) THEN localeCompare(Tail(a), Tail(b))
    ELSE IF rank(Head(a)) < rank(Head(b)) THEN -1
    ELSE IF rank(Head(a)) > rank(Head(b)) THEN 1
    ELSE localeCompare(Tail(a), Tail(b))

\* fsPromises.readdir(dir): the entries, in one of the orders a file system may give
RECURSIVE sortedNames(_)
sortedNames(S) ==
    IF S = {} THEN <<>>
    ELSE LET m == CHOOSE x \in S : \A y \in S : localeCompare(x, y) <= 0
         IN  <<m>> \o sortedNames(S \ {m})

reverse(s) == [i \in 1..Len(s) |-> s[Len(s) + 1 - i]]

ReaddirOrders == {"ascending", "descending"}

readdir(d, dir, order) ==
    LET names == {pathBasename(p) : p \in {q \in d \cup Directories :
                                            q # dir /\ pathDirname(q) = dir}}
    IN  IF order = "ascending" THEN sortedNames(names) ELSE reverse(sortedNames(names))

(***************************************************************************)
(* getConfig of global-state.ts.  A config is modelled by its              *)
(* excludePatterns; CustomExcludes is the array the excludes file holds.   *)
(***************************************************************************)
CustomExcludes == << <<"b", ".", "t", "s">> >>

\* getConfig: the _config it leaves, which is also the value it returns
getConfig(cfg, d) ==
    IF cfg = <<>> THEN <<>>
    ELSE IF ExcludesFile \in d
    THEN <<[cfg[1] EXCEPT !.excludePatterns = @ \o CustomExcludes]>>
    ELSE cfg

(***************************************************************************)
(* isExcluded                                                              *)
(***************************************************************************)
\* globToRegExp(pattern).test(s): ** is .*, * is [^/\\]*, ? is [^/\\], the rest
\* is literal, the whole string is matched and letter case is ignored
RECURSIVE globToRegExpTest(_, _)
globToRegExpTest(pattern, s) ==
    IF pattern = <<>> THEN s = <<>>
    ELSE IF Len(pattern) >= 2 /\ pattern[1] = "*" /\ pattern[2] = "*"
    THEN \E k \in 0..Len(s) :
            globToRegExpTest(SubSeq(pattern, 3, Len(pattern)), SubSeq(s, k + 1, Len(s)))
    ELSE IF pattern[1] = "*"
    THEN \E k \in 0..Len(s) :
            /\ \A i \in 1..k : s[i] \notin {"/", "\\"}
            /\ globToRegExpTest(Tail(pattern), SubSeq(s, k + 1, Len(s)))
    ELSE IF pattern[1] = "?"
    THEN s # <<>> /\ s[1] \notin {"/", "\\"} /\ globToRegExpTest(Tail(pattern), Tail(s))
    ELSE /\ s # <<>> /\ lowerChar(s[1]) = lowerChar(pattern[1])
         /\ globToRegExpTest(Tail(pattern), Tail(s))

\* one round of the loop over the exclude patterns
matchesPattern(pattern, relativePath, fileName) ==
    \/ globToRegExpTest(pattern, relativePath)
    \/ /\ \/ startsWith(pattern, <<"*", "*", "/", "*", ".">>)
          \/ includes(pattern, <<"/", "*", ".">>)
       /\ globToRegExpTest(pattern, fileName)

\* the special case checks made once a pattern list is there
specialCase(name, relativePath, fileName) ==
    \/ includes(relativePath, <<"/">> \o name \o <<"/">>)
    \/ relativePath = name
    \/ fileName = name
    \/ startsWith(relativePath, name \o <<"/">>)

excludedByPatterns(excludePatterns, relativePath, fileName) ==
    \/ specialCase(S_git, relativePath, fileName)
    \/ specialCase(S_node_modules, relativePath, fileName)
    \/ \E i \in 1..Len(excludePatterns) :
          matchesPattern(excludePatterns[i], relativePath, fileName)

\* isExcluded from its call of getConfig on; `config` is what that call returned
excludedByConfig(config, filePath, baseDir) ==
    [excluded |->
        IF config = <<>> THEN FALSE
        ELSE IF config[1].excludePatterns = <<>> THEN FALSE
        ELSE excludedByPatterns(config[1].excludePatterns,
                 replaceChar(pathRelative(baseDir, filePath), "\\", <<"/">>),
                 pathBasename(filePath)),
     config |-> config]

\* the three checks isExcluded makes before it reads the config
failsafe(filePath) ==
    \/ includes(filePath, S_git) \/ pathBasename(filePath) = S_git
    \/ includes(filePath, S_node_modules) \/ pathBasename(filePath) = S_node_modules
    \/ includes(filePath, S_test_excluded)
    \/ startsWith(pathBasename(filePath), S_test_excluded)

\* an isExcluded that leaves the decision to the configured patterns alone
isExcludedByConfigOnly(cfg, d, filePath, baseDir) ==
    excludedByConfig(getConfig(cfg, d), filePath, baseDir)

\* isExcluded: what it returns and the _config it leaves
isExcluded(cfg, d, filePath, baseDir) ==
    IF failsafe(filePath) THEN [excluded |-> TRUE, config |-> cfg]
    ELSE excludedByConfig(getConfig(cfg, d), filePath, baseDir)

(***************************************************************************)
(* scanDirectory: the import extraction of one file                        *)
(***************************************************************************)
isJsFamily(ext) == ext \in {S_js, S_jsx, S_ts, S_tsx}

\* extractImportPath: the literal of a matched statement, <<>> for null
extractImportPath(stmt) ==
    IF stmt.kind \in {"dynamic", "require", "from", "direct"} THEN stmt.spec ELSE <<>>

\* the name the scan gives a package dependency fromPath left unnamed
namedFromImport(pkgDep, importPath) ==
    IF pkgDep.name # <<>> THEN pkgDep
    ELSE IF startsWith(importPath, <<"@">>)
    THEN LET parts == split(importPath, <<"/">>)
         IN  IF Len(parts) >= 2
             THEN [pkgDep EXCEPT !.scope = parts[1],
                                 !.name = parts[1] \o <<"/">> \o parts[2]]
             ELSE pkgDep
    ELSE IF includes(importPath, <<"/">>)
    THEN [pkgDep EXCEPT !.name = split(importPath, <<"/">>)[1]]
    ELSE [pkgDep EXCEPT !.name = importPath]

\* the probe of possibleExtensions: <<first existing candidate>> or <<>>
RECURSIVE probe(_, _, _)
probe(d, resolvedPath, i) ==
    IF i > Len(possibleExtensions) THEN <<>>
    ELSE IF exists(d, resolvedPath \o possibleExtensions[i])
    THEN <<resolvedPath \o possibleExtensions[i]>>
    ELSE probe(d, resolvedPath, i + 1)

\* what one matched import adds to the lists of the file being scanned
scanImport(d, importPath, resolvedPath, acc) ==
    IF importPath = <<>> THEN acc
    ELSE IF \/ includes(resolvedPath, S_node_modules)
            \/ startsWith(importPath, <<"@">>)
            \/ (~startsWith(importPath, <<".">>) /\ ~startsWith(importPath, <<"/">>))
    THEN [acc EXCEPT !.packageDependencies =
              Append(@, namedFromImport(fromPath(resolvedPath), importPath))]
    ELSE [acc EXCEPT !.dependencies = @ \o probe(d, resolvedPath, 1)]

resolvedFrom(ext, importPath, fullPath, baseDir) ==
    IF isJsFamily(ext) THEN resolveImportPath(importPath, fullPath, baseDir)
    ELSE pathResolve(pathDirname(fullPath), importPath)

RECURSIVE scanMatches(_, _, _, _, _, _)
scanMatches(d, matches, ext, fullPath, baseDir, acc) ==
    IF matches = <<>> THEN acc
    ELSE scanMatches(d, Tail(matches), ext, fullPath, baseDir,
             scanImport(d, extractImportPath(Head(matches)),
                        resolvedFrom(ext, extractImportPath(Head(matches)), fullPath, baseDir),
                        acc))

scanContent(d, content, ext, fullPath, baseDir) ==
    IF ext \in IMPORT_PATTERNS
    THEN scanMatches(d, content[fullPath], ext, fullPath, baseDir, NoImports)
    ELSE NoImports

\* the file node scanDirectory builds for a directory entry that is a file
scanFile(d, content, name, fullPath, baseDir) ==
    FileNode(fullPath, name, scanContent(d, content, pathExtname(name), fullPath, baseDir),
             calculateInitialImportance(fullPath, baseDir))

(***************************************************************************)
(* scanDirectory                                                           *)
(***************************************************************************)
\* the calls of getConfig in the log lines at the head of scanDirectory
loggedPatterns(config, d) ==
    IF Len(config[1].excludePatterns) > 0 THEN getConfig(config, d) ELSE config
loggedCount(config, d) ==
    IF config = <<>> THEN config ELSE loggedPatterns(getConfig(config, d), d)
configLogged(cfg, d) == loggedCount(getConfig(getConfig(cfg, d), d), d)

withScanned(children, sub) ==
    [children |-> Append(children, sub.node), config |-> sub.config]

directoryOf(path, scanned) ==
    [node |-> DirectoryNode(path, scanned.children), config |-> scanned.config]

\* scanDirectory: the node it returns and the _config it leaves
RECURSIVE scanDirectory(_, _, _, _, _, _)
RECURSIVE scanEntries(_, _, _, _, _, _, _)
RECURSIVE scanEntryAt(_, _, _, _, _, _, _)
RECURSIVE scanEntry(_, _, _, _, _, _, _, _)
scanDirectory(d, content, order, baseDir, currentDir, cfg) ==
    directoryOf(pathNormalize(currentDir),
        scanEntries(d, content, order, pathNormalize(baseDir), pathNormalize(currentDir),
                    readdir(d, pathNormalize(currentDir), order),
                    [children |-> <<>>, config |-> configLogged(cfg, d)]))
scanEntries(d, content, order, baseDir, dir, entries, acc) ==
    IF entries = <<>> THEN acc
    ELSE scanEntries(d, content, order, baseDir, dir, Tail(entries),
             scanEntryAt(d, content, order, baseDir, Head(entries),
                         pathNormalize(pathJoin(dir, Head(entries))), acc))
scanEntryAt(d, content, order, baseDir, name, fullPath, acc) ==
    scanEntry(d, content, order, baseDir, name, fullPath, acc.children,
              isExcluded(acc.config, d, fullPath, baseDir))
scanEntry(d, content, order, baseDir, name, fullPath, children, shouldExclude) ==
    IF shouldExclude.excluded
    THEN [children |-> children, config |-> shouldExclude.config]
    ELSE IF fullPath \in Directories
    THEN withScanned(children,
             scanDirectory(d, content, order, baseDir, fullPath, shouldExclude.config))
    ELSE [children |-> Append(children, scanFile(d, content, name, fullPath, baseDir)),
          config |-> shouldExclude.config]

(***************************************************************************)
(* buildDependentMap                                                       *)
(***************************************************************************)
\* pathToNodeMap.get(depPath): <<address>> of the last file node set for that path
lastWithPath(root, allFiles, depPath) ==
    LET hits == {i \in 1..Len(allFiles) : nodeAt(root, allFiles[i]).path = depPath}
    IN  IF hits = {} THEN <<>>
        ELSE <<allFiles[CHOOSE i \in hits : \A j \in hits : j <= i]>>

pathToNodeMap(root, depPath) == lastWithPath(root, getAllFileNodes(root), depPath)

\* node.dependents.push(filePath), the includes test left out
withDependentPushed(node, filePath) ==
    [node EXCEPT !.dependents = Append(@, filePath)]

\* if (!node.dependents.includes(filePath)) node.dependents.push(filePath)
withDependent(node, filePath) ==
    IF seqIncludes(node.dependents, filePath) THEN node
    ELSE [node EXCEPT !.dependents = Append(@, filePath)]

addDependent(root, addr, filePath) ==
    replaceAt(root, addr, withDependent(nodeAt(root, addr), filePath))

addDependentAt(root, depNode, filePath) ==
    IF depNode = <<>> THEN root ELSE addDependent(root, depNode[1], filePath)

RECURSIVE buildDependentsOf(_, _, _)
buildDependentsOf(root, filePath, deps) ==
    IF deps = <<>> THEN root
    ELSE buildDependentsOf(addDependentAt(root, pathToNodeMap(root, Head(deps)), filePath),
                           filePath, Tail(deps))

buildDependentsOfFile(root, file) ==
    buildDependentsOf(root, file.path, file.dependencies)

RECURSIVE buildDependentFiles(_, _)
buildDependentFiles(root, files) ==
    IF files = <<>> THEN root
    ELSE buildDependentFiles(buildDependentsOfFile(root, nodeAt(root, Head(files))),
                             Tail(files))

buildDependentMap(root) == buildDependentFiles(root, getAllFileNodes(root))

(***************************************************************************)
(* calculateImportance                                                     *)
(***************************************************************************)
isSdk(dep) == includes(dep.name, S_sdk)

count(s, Test(_)) == Cardinality({i \in 1..Len(s) : Test(s[i])})

\* the score calculateImportance stores in a file node
accumulatedImportance(node) ==
    LET start == IF node.importance = Undefined \/ node.importance = 0
                 THEN calculateInitialImportance(node.path, Cwd)
                 ELSE node.importance
        sdk(dep) == dep.name # <<>> /\ isSdk(dep)
        other(dep) == dep.name # <<>> /\ ~isSdk(dep)
        total == start
                 + Min(Len(node.dependents), 3) * Resolution
                 + Min(Len(node.dependencies), 2) * Resolution
                 + Min(count(node.packageDependencies, sdk), 2) * Resolution
                 + Min(count(node.packageDependencies, other), 1) * Resolution
    IN  Min(total, 10 * Resolution)

RECURSIVE calculateImportance(_)
calculateImportance(node) ==
    LET scored == IF node.isDirectory THEN node
                  ELSE [node EXCEPT !.importance = accumulatedImportance(node)]
    IN  [scored EXCEPT !.children = [i \in 1..Len(node.children) |->
                                        calculateImportance(node.children[i])]]

(***************************************************************************)
(* setFileImportance                                                       *)
(***************************************************************************)
\* Math.min(10, Math.max(0, importance))
clamp(importance) == Min(10 * Resolution, Max(0, importance))

\* split('/').pop() || ''
lastPart(p) == LET parts == split(p, <<"/">>) IN parts[Len(parts)]

\* the four comparisons of findAndSetImportance, on the two normalized paths
matchesNormalized(normalizedNodePath, normalizedInputPath) ==
    \/ normalizedNodePath = normalizedInputPath
    \/ toLowerCase(normalizedNodePath) = toLowerCase(normalizedInputPath)
    \/ endsWith(normalizedInputPath, normalizedNodePath)
    \/ endsWith(normalizedNodePath, normalizedInputPath)
    \/ (lastPart(normalizedNodePath) = lastPart(normalizedInputPath)
        /\ lastPart(normalizedNodePath) # <<>>)

\* whether findAndSetImportance stops at a node with this path
matchesInput(nodePath, filePath) ==
    matchesNormalized(normalizePath(nodePath), normalizePath(filePath))

\* findAndSetImportance: <<address>> of the node it sets, <<>> when it returns false
RECURSIVE findAndSetImportance(_, _, _)
RECURSIVE findAndSetIn(_, _, _, _)
findAndSetImportance(node, addr, filePath) ==
    IF matchesInput(node.path, filePath) THEN <<addr>>
    ELSE IF node.isDirectory THEN findAndSetIn(node, addr, filePath, 1)
    ELSE <<>>
findAndSetIn(node, addr, filePath, i) ==
    IF i > Len(node.children) THEN <<>>
    ELSE LET orNext(found) ==
                 IF found # <<>> THEN found ELSE findAndSetIn(node, addr, filePath, i + 1)
         IN  orNext(findAndSetImportance(node.children[i], Append(addr, i), filePath))

withImportance(node, importance) == [node EXCEPT !.importance = importance]

setImportanceAt(fileTree, found, importance) ==
    IF found = <<>> THEN [tree |-> fileTree, updated |-> FALSE]
    ELSE [tree |-> replaceAt(fileTree, found[1],
                       withImportance(nodeAt(fileTree, found[1]), clamp(importance))),
          updated |-> TRUE]

\* setFileImportance: the tree it leaves and the boolean it returns
setFileImportance(fileTree, filePath, importance) ==
    setImportanceAt(fileTree, findAndSetImportance(fileTree, <<>>, filePath), importance)

(***************************************************************************)
(* The tools set_file_importance and recalculate_importance                *)
(***************************************************************************)
\* the schema of the importance parameter: z.number().min(0).max(10)
acceptsImportance(importance) == importance >= 0 /\ importance <= 10 * Resolution

\* the loop of the tool over allFiles: <<address>> of the first file whose basename
\* is the basename asked for, <<>> when the loop ends with foundFile false
RECURSIVE firstWithBasename(_, _, _)
firstWithBasename(tree, allFiles, basename) ==
    IF allFiles = <<>> THEN <<>>
    ELSE IF pathBasename(nodeAt(tree, Head(allFiles)).path) = basename
    THEN <<Head(allFiles)>>
    ELSE firstWithBasename(tree, Tail(allFiles), basename)

\* the tool after its call of setFileImportance: the search by basename when that
\* call returned false
setImportanceOrBasename(set, filepath, importance) ==
    IF set.updated THEN set
    ELSE setImportanceAt(set.tree,
             firstWithBasename(set.tree, getAllFileNodes(set.tree), pathBasename(filepath)),
             importance)

\* the tree set_file_importance leaves and whether it answered without an error
setFileImportanceTool(tree, filepath, importance) ==
    setImportanceOrBasename(setFileImportance(tree, filepath, importance),
                            filepath, importance)

(***************************************************************************)
(* analyzeNewFile                                                          *)
(***************************************************************************)
\* match[1] || match[2] || match[3] of the extension's pattern, <<>> when unset
capturedImport(ext, stmt) ==
    LET group ==
            IF ext \in {S_ts, S_js}
            THEN (IF stmt.kind \in {"from", "direct"} THEN 1
                  ELSE IF stmt.kind = "require" THEN 2
                  ELSE IF stmt.kind = "dynamic" THEN 3 ELSE 0)
            ELSE IF ext \in {S_tsx, S_jsx}
            THEN (IF stmt.kind = "from" THEN 1
                  ELSE IF stmt.kind = "direct" THEN 2
                  ELSE IF stmt.kind = "require" THEN 3
                  ELSE IF stmt.kind = "dynamic" THEN 4 ELSE 0)
            ELSE 0
    IN  IF group \in 1..3 THEN stmt.spec ELSE <<>>

\* what one matched import adds to the lists of the new file
analyzeImport(d, importPath, normalizedResolvedPath, acc) ==
    IF importPath = <<>> THEN acc
    ELSE IF \/ includes(normalizedResolvedPath, S_node_modules)
            \/ (~startsWith(importPath, <<".">>) /\ ~startsWith(importPath, <<"/">>))
    THEN [acc EXCEPT !.packageDependencies = Append(@, fromPath(normalizedResolvedPath))]
    ELSE IF exists(d, normalizedResolvedPath)
    THEN [acc EXCEPT !.dependencies = Append(@, normalizedResolvedPath)]
    ELSE acc

RECURSIVE analyzeMatches(_, _, _, _, _, _)
analyzeMatches(d, matches, ext, filePath, projectRoot, acc) ==
    IF matches = <<>> THEN acc
    ELSE analyzeMatches(d, Tail(matches), ext, filePath, projectRoot,
             analyzeImport(d, capturedImport(ext, Head(matches)),
                 normalizePath(resolveImportPath(capturedImport(ext, Head(matches)),
                                                 filePath, projectRoot)),
                 acc))

analyzeContent(d, content, ext, filePath, projectRoot) ==
    IF ext \in IMPORT_PATTERNS /\ filePath \in d
    THEN analyzeMatches(d, content[filePath], ext, filePath, projectRoot, NoImports)
    ELSE NoImports

analyzeNewFile(d, content, filePath, projectRoot) ==
    analyzeContent(d, content, pathExtname(filePath), filePath, projectRoot)

(***************************************************************************)
(* Helpers of the incremental updates                                      *)
(***************************************************************************)
calculateNodeImportance(node, projectRoot) ==
    LET total == calculateInitialImportance(node.path, projectRoot)
                 + Min(Len(node.dependents), 3) * Resolution
                 + Min(Len(node.dependencies), 2) * Resolution
                 + Min(count(node.packageDependencies, isSdk), 2) * Resolution
                 + Min(Len(node.packageDependencies)
                       - count(node.packageDependencies, isSdk), 1) * Resolution
    IN  Min(10 * Resolution, Max(0, MathRound(total)))

\* whether findNodeByPath gave a file node
isFileAt(tree, found) == found # <<>> /\ ~nodeAt(tree, found[1]).isDirectory

\* depNode.dependents.push(newNode.path), the includes test left out
pushDependentIfFile(tree, depNode, newPath) ==
    IF isFileAt(tree, depNode)
    THEN replaceAt(tree, depNode[1], withDependentPushed(nodeAt(tree, depNode[1]), newPath))
    ELSE tree

addDependentIfFile(tree, depNode, newPath) ==
    IF isFileAt(tree, depNode) THEN addDependent(tree, depNode[1], newPath) ELSE tree

\* a walk that goes on into the dependencies of every dependency it reaches
RECURSIVE updateDependentsTransitively(_, _, _)
updateDependentsTransitively(newPath, dependencies, tree) ==
    IF dependencies = <<>> THEN tree
    ELSE updateDependentsTransitively(newPath,
             Tail(dependencies)
                 \o (IF isFileAt(tree, findNodeByPath(tree, Head(dependencies)))
                     THEN nodeAt(tree, findNodeByPath(tree, Head(dependencies))[1]).dependencies
                     ELSE <<>>),
             addDependentIfFile(tree, findNodeByPath(tree, Head(dependencies)), newPath))

RECURSIVE updateDependentsForNewNode(_, _, _)
updateDependentsForNewNode(newPath, dependencies, tree) ==
    IF dependencies = <<>> THEN tree
    ELSE updateDependentsForNewNode(newPath, Tail(dependencies),
             addDependentIfFile(tree, findNodeByPath(tree, Head(dependencies)), newPath))

\* const index = list.indexOf / findIndex(...); if (index > -1) list.splice(index, 1)
spliceAt(list, index) == IF index > 0 THEN spliceOut(list, index) ELSE list

spliceFirst(list, Test(_)) == spliceAt(list, firstIndex(list, Test))

withoutDependent(node, removedPath) ==
    LET isRemoved(x) == x = removedPath
    IN  [node EXCEPT !.dependents = spliceFirst(@, isRemoved)]

removeDependentIfFile(tree, depNode, removedPath) ==
    IF isFileAt(tree, depNode)
    THEN replaceAt(tree, depNode[1], withoutDependent(nodeAt(tree, depNode[1]), removedPath))
    ELSE tree

RECURSIVE updateDependentsAfterRemoval(_, _, _)
updateDependentsAfterRemoval(removedPath, dependencies, tree) ==
    IF dependencies = <<>> THEN tree
    ELSE updateDependentsAfterRemoval(removedPath, Tail(dependencies),
             removeDependentIfFile(tree, findNodeByPath(tree, Head(dependencies)),
                                   removedPath))

withoutDependency(node, normalizedRemovedPath) ==
    LET isRemoved(x) == normalizePath(x) = normalizedRemovedPath
    IN  [node EXCEPT !.dependencies = spliceFirst(@, isRemoved)]

removeDependencyIfFile(tree, dependerNode, removedPath) ==
    IF isFileAt(tree, dependerNode)
    THEN replaceAt(tree, dependerNode[1],
             withoutDependency(nodeAt(tree, dependerNode[1]), normalizePath(removedPath)))
    ELSE tree

RECURSIVE updateDependersAfterRemoval(_, _, _)
updateDependersAfterRemoval(removedPath, dependents, tree) ==
    IF dependents = <<>> THEN tree
    ELSE updateDependersAfterRemoval(removedPath, Tail(dependents),
             removeDependencyIfFile(tree, findNodeByPath(tree, Head(dependents)),
                                    removedPath))

\* [...new Set(affectedPaths)]
RECURSIVE unique(_)
unique(s) ==
    IF s = <<>> THEN <<>>
    ELSE LET notHead(x) == x # Head(s)
         IN  <<Head(s)>> \o unique(SelectSeq(Tail(s), notHead))

recalculateIfFile(tree, found, projectRoot) ==
    IF isFileAt(tree, found)
    THEN replaceAt(tree, found[1],
             withImportance(nodeAt(tree, found[1]),
                            calculateNodeImportance(nodeAt(tree, found[1]), projectRoot)))
    ELSE tree

RECURSIVE recalculateEach(_, _, _)
recalculateEach(uniquePaths, tree, projectRoot) ==
    IF uniquePaths = <<>> THEN tree
    ELSE recalculateEach(Tail(uniquePaths),
             recalculateIfFile(tree, findNodeByPath(tree, Head(uniquePaths)), projectRoot),
             projectRoot)

recalculateImportanceForAffected(affectedPaths, tree, projectRoot) ==
    recalculateEach(unique(affectedPaths), tree, projectRoot)

\* children.sort((a, b) => a.name.localeCompare(b.name)): a stable sort
RECURSIVE insertByName(_, _)
insertByName(sorted, node) ==
    IF sorted = <<>> THEN <<node>>
    ELSE IF localeCompare(node.name, sorted[Len(sorted)].name) >= 0
    THEN Append(sorted, node)
    ELSE Append(insertByName(SubSeq(sorted, 1, Len(sorted) - 1), node), sorted[Len(sorted)])

\* the children left in the order of the push, the sort left out
pushedOrder(children) == children

RECURSIVE sortByName(_)
sortByName(children) ==
    IF children = <<>> THEN <<>>
    ELSE insertByName(sortByName(SubSeq(children, 1, Len(children) - 1)),
                      children[Len(children)])

mapSeq(s, F(_)) == [i \in 1..Len(s) |-> F(s[i])]

(***************************************************************************)
(* addFileNode and removeFileNode, as functions of the tree: the tree they *)
(* leave, and whether they ran to their last statement                     *)
(***************************************************************************)
\* the new FileNode addFileNode fills in
newFileNode(d, content, normalizedFilePath, activeProjectRoot) ==
    FileNode(normalizedFilePath, pathBasename(normalizedFilePath),
             analyzeNewFile(d, content, normalizedFilePath, activeProjectRoot),
             calculateInitialImportance(normalizedFilePath, activeProjectRoot))

\* parentNode.children.push(newNode); parentNode.children.sort(...)
withChild(parent, newNode) ==
    [parent EXCEPT !.children = sortByName(Append(@, newNode))]

\* the statements of addFileNode after its guards
attachNode(tree, parentAddr, newNode, activeProjectRoot) ==
    recalculateImportanceForAffected(
        <<newNode.path>> \o mapSeq(newNode.dependencies, normalizePath),
        updateDependentsForNewNode(newNode.path, newNode.dependencies,
            replaceAt(tree, parentAddr, withChild(nodeAt(tree, parentAddr), newNode))),
        activeProjectRoot)

\* the duplicate check made on the child's name in place of its path
hasChildWithName(parent, normalizedFilePath) ==
    \E i \in 1..Len(parent.children) : parent.children[i].name = normalizedFilePath

\* the duplicate check made on the first child alone
hasFirstChildWithPath(parent, normalizedFilePath) ==
    /\ parent.children # <<>>
    /\ normalizePath(parent.children[1].path) = normalizedFilePath

hasChildWithPath(parent, normalizedFilePath) ==
    \E i \in 1..Len(parent.children) :
        normalizePath(parent.children[i].path) = normalizedFilePath

addFileNodeUnder(tree, d, content, normalizedFilePath, parentNode, activeProjectRoot) ==
    IF parentNode = <<>> \/ ~nodeAt(tree, parentNode[1]).isDirectory
    THEN [tree |-> tree, done |-> FALSE]
    ELSE IF hasChildWithPath(nodeAt(tree, parentNode[1]), normalizedFilePath)
    THEN [tree |-> tree, done |-> FALSE]
    ELSE [tree |-> attachNode(tree, parentNode[1],
                       newFileNode(d, content, normalizedFilePath, activeProjectRoot),
                       activeProjectRoot),
          done |-> TRUE]

addFileNodeAt(tree, d, content, normalizedFilePath, activeProjectRoot) ==
    addFileNodeUnder(tree, d, content, normalizedFilePath,
                     findNodeByPath(tree, pathDirname(normalizedFilePath)),
                     activeProjectRoot)

addFileNodeOn(tree, d, content, filePath, activeProjectRoot) ==
    addFileNodeAt(tree, d, content, normalizePath(filePath), activeProjectRoot)

\* parentNode.children.findIndex(...) and splice(index, 1)
withoutChild(parent, normalizedFilePath) ==
    LET isThisPath(child) == normalizePath(child.path) = normalizedFilePath
    IN  [parent EXCEPT !.children = spliceFirst(@, isThisPath)]

\* the statements of removeFileNode after its guards
detachNode(tree, parentAddr, nodeToRemove, normalizedFilePath, activeProjectRoot) ==
    recalculateImportanceForAffected(
        mapSeq(nodeToRemove.dependencies, normalizePath)
            \o mapSeq(nodeToRemove.dependents, normalizePath),
        updateDependersAfterRemoval(nodeToRemove.path, nodeToRemove.dependents,
            updateDependentsAfterRemoval(nodeToRemove.path, nodeToRemove.dependencies,
                replaceAt(tree, parentAddr,
                          withoutChild(nodeAt(tree, parentAddr), normalizedFilePath)))),
        activeProjectRoot)

\* removeFileNode without the test that the node found is a file
removeAnyNodeUnder(tree, normalizedFilePath, found, parentNode, activeProjectRoot) ==
    IF found = <<>>
    THEN [tree |-> tree, done |-> FALSE]
    ELSE IF parentNode = <<>> \/ ~nodeAt(tree, parentNode[1]).isDirectory
    THEN [tree |-> tree, done |-> FALSE]
    ELSE [tree |-> detachNode(tree, parentNode[1], nodeAt(tree, found[1]),
                              normalizedFilePath, activeProjectRoot),
          done |-> TRUE]

removeFileNodeUnder(tree, normalizedFilePath, found, parentNode, activeProjectRoot) ==
    IF found = <<>> \/ nodeAt(tree, found[1]).isDirectory
    THEN [tree |-> tree, done |-> FALSE]
    ELSE IF parentNode = <<>> \/ ~nodeAt(tree, parentNode[1]).isDirectory
    THEN [tree |-> tree, done |-> FALSE]
    ELSE [tree |-> detachNode(tree, parentNode[1], nodeAt(tree, found[1]),
                              normalizedFilePath, activeProjectRoot),
          done |-> TRUE]

removeFileNodeAt(tree, normalizedFilePath, activeProjectRoot) ==
    removeFileNodeUnder(tree, normalizedFilePath,
                        findNodeByPath(tree, normalizedFilePath),
                        findNodeByPath(tree, pathDirname(normalizedFilePath)),
                        activeProjectRoot)

removeFileNodeOn(tree, filePath, activeProjectRoot) ==
    removeFileNodeAt(tree, normalizePath(filePath), activeProjectRoot)

\* the two passes buildFileTree runs over a scan that found something
graphAndScores(scanned) ==
    IF scanned.children = <<>> THEN scanned
    ELSE calculateImportance(buildDependentMap(scanned))

\* buildFileTree, when no saved tree is loaded: the scan, the graph and the scores,
\* and the _config the scan leaves
scoredTree(scanned) == [tree |-> graphAndScores(scanned.node), config |-> scanned.config]

scannedTree(d, content, order, baseDirectory, cfg) ==
    scoredTree(scanDirectory(d, content, order, baseDirectory, baseDirectory, cfg))

(***************************************************************************)
(* State                                                                   *)
(***************************************************************************)
VARIABLES
    disk,         \* the files that exist
    fileContent,  \* the import statements of every file
    fileTree,     \* <<>> for null, <<root node>> otherwise
    last,         \* the last call made: what, with which arguments, on which tree
    config,       \* _config of global-state.ts: <<>> for null, <<config>> otherwise
    returned,     \* <<value>> returned by the last call of a function, <<>> if none
    calls,        \* the calls of addFileNode, removeFileNode and the scan in flight
    lastIndex,    \* lastIndex of the regular expression of every extension
    currentConfig, \* currentConfig of mcp-server.ts: <<>> for null, <<config>> otherwise
    loadedTrees,  \* loadedTrees of storage-utils.ts: filename -> storage
    saved         \* the tree files written to the working directory: path -> storage

\* a Map without entries
Nothing == [k \in {} |-> <<>>]

\* map.set(key, value) and the map without the key
mapSet(map, key, value) ==
    [k \in DOMAIN map \cup {key} |-> IF k = key THEN value ELSE map[k]]
mapDelete(map, key) == [k \in DOMAIN map \ {key} |-> map[k]]

\* the state of the calls in flight, and the state of the tree files
asyncVars == <<calls, lastIndex>>
storeVars == <<currentConfig, loadedTrees, saved>>

vars == <<disk, fileContent, fileTree, last, config, returned, asyncVars, storeVars>>

\* no call is in flight, every pattern is at its start, no tree file is loaded or saved
Quiet ==
    /\ calls = <<>>
    /\ lastIndex = [ext \in IMPORT_PATTERNS |-> 0]
    /\ currentConfig = <<>>
    /\ loadedTrees = Nothing
    /\ saved = Nothing

NoCall ==
    [op |-> "none", path |-> <<>>, value |-> 0, done |-> FALSE, pre |-> <<>>,
     undoes |-> FALSE]

\* the record of a call: `pre` is the tree it was made on, `done` whether it ran to
\* its end, `undoes` whether it removed the path the call before it had added
Call(op, path, value, done) ==
    [op |-> op, path |-> path, value |-> value, done |-> done, pre |-> fileTree,
     undoes |-> /\ op = "remove" /\ done
                /\ last.op = "add" /\ last.done
                /\ normalizePath(last.path) = normalizePath(path)]

\* the import strings the files of the model are written with
ImportB == <<".", "/", "b">> \o S_ts
ImportBBare == <<".", "/", "b">>
ImportUpA == <<".", ".", "/", "a">> \o S_ts
ImportUpB == <<".", ".", "/", "b">> \o S_ts
ImportPkg == <<"x">>

ImportsOf(a, b, c) ==
    [f \in Files |-> IF f = FileA THEN a ELSE IF f = FileB THEN b ELSE c]

\* the projects of the model: which files exist and what each one imports
Projects == {
    \* a.ts imports ./b.ts twice, b.ts imports the SDK, src/a.ts imports both
    [disk |-> Files,
     content |-> ImportsOf(<<Import("from", ImportB), Import("require", ImportB)>>,
                           <<Import("from", S_sdk)>>,
                           <<Import("from", ImportUpA), Import("dynamic", ImportUpB)>>)],
    \* a.ts imports ./b without its extension and a package, nothing else imports
    [disk |-> Files,
     content |-> ImportsOf(<<Import("from", ImportBBare), Import("from", ImportPkg)>>,
                           <<>>, <<>>)],
    \* a.ts imports ./b.ts once, src/a.ts imports ../a.ts
    [disk |-> Files,
     content |-> ImportsOf(<<Import("from", ImportB)>>, <<>>,
                           <<Import("from", ImportUpA)>>)],
    \* b.ts does not exist, a.ts imports it all the same
    [disk |-> Files \ {FileB},
     content |-> ImportsOf(<<Import("from", ImportB)>>, <<>>, <<>>)] }

\* the paths the calls are made with
PathInputs == Files \cup {
    SrcDir,
    FileB \o <<"/">>,
    Root \o <<"/", "x", "/", "n">> \o S_ts,
    FileA \o <<"/", "n">> \o S_ts }

Init ==
    /\ \E project \in Projects :
          /\ disk = project.disk
          /\ fileContent = project.content
    /\ fileTree = <<>>
    /\ last = NoCall
    /\ config = <<>>
    /\ returned = <<>>
    /\ Quiet

(***************************************************************************)
(* Actions                                                                 *)
(***************************************************************************)
buildFileTree(order) ==
    /\ LET built == scannedTree(disk, fileContent, order, Root, config)
       IN  /\ fileTree' = <<built.tree>>
           /\ config' = built.config
    /\ last' = Call("scan", Root, 0, TRUE)
    /\ UNCHANGED <<disk, fileContent, returned, asyncVars, storeVars>>

addFileNode(filePath) ==
    /\ fileTree # <<>>
    /\ LET r == addFileNodeOn(fileTree[1], disk, fileContent, filePath, Root)
       IN  /\ fileTree' = <<r.tree>>
           /\ last' = Call("add", filePath, 0, r.done)
    /\ UNCHANGED <<disk, fileContent, config, returned, asyncVars, storeVars>>

removeFileNode(filePath) ==
    /\ fileTree # <<>>
    /\ LET r == removeFileNodeOn(fileTree[1], filePath, Root)
       IN  /\ fileTree' = <<r.tree>>
           /\ last' = Call("remove", filePath, 0, r.done)
    /\ UNCHANGED <<disk, fileContent, config, returned, asyncVars, storeVars>>

\* the tree a tool works on: built first when there is none
treeOfTool(order) ==
    IF fileTree = <<>> THEN scannedTree(disk, fileContent, order, Root, config)
    ELSE [tree |-> fileTree[1], config |-> config]

\* the handler of set_file_importance on the tree it works on
importanceSetOn(built, filepath, importance) ==
    LET r == setFileImportanceTool(built.tree, filepath, importance)
    IN  /\ fileTree' = <<r.tree>>
        /\ config' = built.config
        /\ last' = Call("set", filepath, importance, r.updated)

set_file_importance(order, filepath, importance) ==
    /\ IF acceptsImportance(importance)
       THEN importanceSetOn(treeOfTool(order), filepath, importance)
       ELSE /\ fileTree' = fileTree
            /\ config' = config
            /\ last' = Call("set", filepath, importance, FALSE)
    /\ UNCHANGED <<disk, fileContent, returned, asyncVars, storeVars>>

\* the handler of recalculate_importance on the tree it works on
importanceRecalculatedOn(built) ==
    /\ fileTree' = <<calculateImportance(built.tree)>>
    /\ config' = built.config

recalculate_importance(order) ==
    /\ importanceRecalculatedOn(treeOfTool(order))
    /\ last' = Call("recalculate", <<>>, 0, TRUE)
    /\ UNCHANGED <<disk, fileContent, returned, asyncVars, storeVars>>

Next ==
    \/ \E order \in ReaddirOrders : buildFileTree(order)
    \/ \E filePath \in PathInputs : addFileNode(filePath)
    \/ \E filePath \in PathInputs : removeFileNode(filePath)

Spec == Init /\ [][Next]_vars

\* the paths and the values the scoring tools are called with
ScorePaths == {FileA, FileS, Root \o <<"/", "x", "/", "n">> \o S_ts}

\* the files added and removed between the calls of the scoring tools
ScoreChanges == {FileB}

ScoreValues == {3 * Resolution + 1, 11 * Resolution}

\* a.ts imports ./b.ts, src/a.ts imports ../a.ts
ScoreProjects == {project \in Projects :
                    /\ project.disk = Files
                    /\ Len(project.content[FileA]) = 1
                    /\ Len(project.content[FileS]) = 1}

InitScore ==
    /\ \E project \in ScoreProjects :
          /\ disk = project.disk
          /\ fileContent = project.content
    /\ fileTree = <<>>
    /\ last = NoCall
    /\ config = <<>>
    /\ returned = <<>>
    /\ Quiet

NextScore ==
    \/ \E order \in ReaddirOrders : buildFileTree(order)
    \/ \E filePath \in ScoreChanges : addFileNode(filePath)
    \/ \E filePath \in ScoreChanges : removeFileNode(filePath)
    \/ \E order \in ReaddirOrders, filepath \in ScorePaths, importance \in ScoreValues :
          set_file_importance(order, filepath, importance)
    \/ \E order \in ReaddirOrders : recalculate_importance(order)

SpecScore == InitScore /\ [][NextScore]_vars

(***************************************************************************)
(* Scans under a configuration: setConfig of global-state.ts is called     *)
(* with a pattern list, the project holds a .git and a node_modules        *)
(* directory, and the excludes file may be there.                          *)
(***************************************************************************)
\* a file whose name only begins like the metadata directory's
FileI == Root \o <<"/">> \o S_git \o <<"i", "g", "n", "o", "r", "e">>

ExcludeFiles == Files \cup {FileG, FileM, FileI}

ConfigInputs == {
    [excludePatterns |-> <<>>],
    [excludePatterns |-> << S_src >>],
    [excludePatterns |-> << <<"*", "*", "/", "*", ".", "t", "s">> >>] }

\* scans are made while the pattern list is no longer than this
MaxPatterns == 12

InitExclude ==
    /\ \E custom \in SUBSET {ExcludesFile} : disk = ExcludeFiles \cup custom
    /\ fileContent = [f \in ExcludeFiles \cup {ExcludesFile} |->
                         IF f = FileA THEN <<Import("from", ImportB)>> ELSE <<>>]
    /\ fileTree = <<>>
    /\ last = NoCall
    /\ config = <<>>
    /\ returned = <<>>
    /\ Quiet

setConfig(c) ==
    /\ config' = <<c>>
    /\ last' = Call("setConfig", <<>>, 0, TRUE)
    /\ UNCHANGED <<disk, fileContent, fileTree, returned, asyncVars, storeVars>>

PatternsWithin(n) ==
    IF config = <<>> THEN TRUE ELSE Len(config[1].excludePatterns) <= n

NextExclude ==
    \/ \E c \in ConfigInputs : setConfig(c)
    \/ \E order \in ReaddirOrders : PatternsWithin(MaxPatterns) /\ buildFileTree(order)

SpecExclude == InitExclude /\ [][NextExclude]_vars

(***************************************************************************)
(* normalizePath called on its own.  The strings are spelled with tokens   *)
(* whose percent escapes are either escapes decodeURIComponent of the      *)
(* model decodes or ones the JavaScript function rejects with a URIError.  *)
(***************************************************************************)
PathTokens == {<<"/">>, <<"\\">>, <<"\"">>, <<"%", "2", "5">>, <<"%">>,
               <<"2", "5">>, <<"C", ":">>, <<"a">>}

MaxTokens == 3

RECURSIVE Spelled(_)
Spelled(n) ==
    IF n = 0 THEN {<<>>}
    ELSE Spelled(n - 1) \cup {s \o t : s \in Spelled(n - 1), t \in PathTokens}

NormalizeInputs == Spelled(MaxTokens)

InitNormalize ==
    /\ disk = Files
    /\ fileContent = ImportsOf(<<>>, <<>>, <<>>)
    /\ fileTree = <<>>
    /\ last = NoCall
    /\ config = <<>>
    /\ returned = <<>>
    /\ Quiet

\* one call of normalizePath
callNormalizePath(filepath) ==
    /\ last.op = "none"
    /\ returned' = <<normalizePath(filepath)>>
    /\ last' = Call("normalizePath", filepath, 0, TRUE)
    /\ UNCHANGED <<disk, fileContent, fileTree, config, asyncVars, storeVars>>

\* a call of normalizePath on what the call before it returned
callNormalizePathAgain ==
    /\ last.op = "normalizePath"
    /\ returned' = <<normalizePath(returned[1])>>
    /\ last' = Call("normalizePath", returned[1], 0, TRUE)
    /\ UNCHANGED <<disk, fileContent, fileTree, config, asyncVars, storeVars>>

NextNormalize ==
    \/ \E filepath \in NormalizeInputs : callNormalizePath(filepath)
    \/ callNormalizePathAgain

SpecNormalize == InitNormalize /\ [][NextNormalize]_vars

(***************************************************************************)
(* The passes of the scan pipeline one at a time: SpecGraph.  A call of    *)
(* scanDirectory on a project, then calls of buildDependentMap on the tree *)
(* it returned.                                                            *)
(***************************************************************************)
ImportA == <<".", "/", "a">> \o S_ts

\* what each file of a project may be written with
GraphImports == [f \in Files |->
    IF f = FileA
    THEN {<<>>, <<Import("from", ImportB)>>,
          <<Import("from", ImportB), Import("require", ImportB)>>,
          <<Import("from", ImportBBare), Import("from", ImportPkg)>>}
    ELSE IF f = FileB
    THEN {<<>>, <<Import("from", S_sdk)>>, <<Import("from", ImportA)>>}
    ELSE {<<>>, <<Import("from", ImportUpA)>>,
          <<Import("from", ImportUpA), Import("dynamic", ImportUpB)>>}]

\* how often buildDependentMap is applied to one tree
MaxPasses == 2

InitGraph ==
    /\ disk \in {Files, Files \ {FileB}}
    /\ fileContent \in {c \in [Files -> UNION {GraphImports[f] : f \in Files}] :
                            \A f \in Files : c[f] \in GraphImports[f]}
    /\ fileTree = <<>>
    /\ last = NoCall
    /\ config = <<>>
    /\ returned = <<>>
    /\ Quiet

callScanDirectory(order) ==
    /\ last.op = "none"
    /\ fileTree' = <<scanDirectory(disk, fileContent, order, Root, Root, config).node>>
    /\ last' = Call("scanDirectory", Root, 0, TRUE)
    /\ UNCHANGED <<disk, fileContent, config, returned, asyncVars, storeVars>>

callBuildDependentMap ==
    /\ last.op \in {"scanDirectory", "buildDependentMap"}
    /\ last.value < MaxPasses
    /\ fileTree' = <<buildDependentMap(fileTree[1])>>
    /\ last' = Call("buildDependentMap", Root, last.value + 1, TRUE)
    /\ UNCHANGED <<disk, fileContent, config, returned, asyncVars, storeVars>>

NextGraph ==
    \/ \E order \in ReaddirOrders : callScanDirectory(order)
    \/ callBuildDependentMap

SpecGraph == InitGraph /\ [][NextGraph]_vars

(***************************************************************************)
(* A file that appears after the scan: SpecRescan.  The project is scanned *)
(* while one of its files is not yet on disk; the file is then created and *)
(* addFileNode is called with its path.                                    *)
(***************************************************************************)
InitRescan ==
    /\ \E f \in Files : disk = Files \ {f}
    /\ fileContent \in {c \in [Files -> UNION {GraphImports[f] : f \in Files}] :
                            \A f \in Files : c[f] \in GraphImports[f]}
    /\ fileTree = <<>>
    /\ last = NoCall
    /\ config = <<>>
    /\ returned = <<>>
    /\ Quiet

\* the file system gets the file the project was scanned without
fileCreated(f) ==
    /\ f \notin disk
    /\ disk' = disk \cup {f}
    /\ last' = Call("created", f, 0, TRUE)
    /\ UNCHANGED <<fileContent, fileTree, config, returned, asyncVars, storeVars>>

NextRescan ==
    \/ \E order \in ReaddirOrders : last.op = "none" /\ buildFileTree(order)
    \/ \E f \in Files : last.op = "scan" /\ fileCreated(f)
    \/ last.op = "created" /\ addFileNode(last.path)

SpecRescan == InitRescan /\ [][NextRescan]_vars

(***************************************************************************)
(* The tree files and the tools that create, select and delete them:       *)
(* SpecStore.  The server runs in the project root /p; a tree file is      *)
(* written there, so a scan of /p finds the tree files written before it.  *)
(***************************************************************************)
S_dotjson == <<".", "j", "s", "o", "n">>
TreeT == <<"t">> \o S_dotjson

\* the filenames and the directories the tools are called with
FilenameInputs == {TreeT, <<"t">>, Root \o <<"/">> \o TreeT}
DirectoryInputs == {Root, SrcDir, GitDir}

getProjectRoot == Root

pathIsAbsolute(p) == p # <<>> /\ p[1] = "/"

\* the steps of normalizeAndResolvePath after the decoding
resolveDecoded(decoded) ==
    LET cleanPath ==
            IF Len(decoded) >= 3 /\ decoded[1] = "/" /\ decoded[3] = ":"
               /\ isLetter(decoded[2])
            THEN Tail(decoded) ELSE decoded
    IN  IF pathIsAbsolute(cleanPath)
        THEN collapseSlashes(replaceChar(cleanPath, "\\", <<"/">>))
        ELSE collapseSlashes(replaceChar(pathResolve(getProjectRoot, cleanPath),
                                         "\\", <<"/">>))

resolveOrOriginal(inputPath, dec) ==
    IF dec.ok THEN resolveDecoded(dec.out) ELSE inputPath

normalizeAndResolvePath(inputPath) ==
    IF inputPath \in {<<".">>, <<".", "/">>}
    THEN collapseSlashes(replaceChar(getProjectRoot, "\\", <<"/">>))
    ELSE IF hasChar(inputPath, "%")
    THEN resolveOrOriginal(inputPath, decodeURIComponent(inputPath))
    ELSE resolveDecoded(inputPath)

\* createFileTreeConfig, the date left out
createFileTreeConfig(filename, baseDirectory) ==
    LET base == IF baseDirectory \in {<<".">>, <<".", "/">>} THEN getProjectRoot
                ELSE baseDirectory
        basename == pathBasename(filename)
    IN  [filename |-> IF endsWith(basename, S_dotjson) THEN basename
                      ELSE basename \o S_dotjson,
         baseDirectory |-> normalizeAndResolvePath(base),
         projectRoot |-> getProjectRoot]

\* loadFileTree: the cached storage, or the parsed file, or a throw (ok = FALSE)
loadFileTree(filename, loaded, files) ==
    IF filename \in DOMAIN loaded
    THEN [ok |-> TRUE, storage |-> <<loaded[filename]>>, loadedTrees |-> loaded]
    ELSE IF pathResolve(Cwd, filename) \in DOMAIN files
    THEN [ok |-> TRUE, storage |-> <<files[pathResolve(Cwd, filename)]>>,
          loadedTrees |-> mapSet(loaded, filename, files[pathResolve(Cwd, filename)])]
    ELSE [ok |-> FALSE, storage |-> <<>>, loadedTrees |-> loaded]

\* saveFileTree: the file written into the working directory
saveFileTree(cfg, tree, files) ==
    mapSet(files, pathJoin(Cwd, cfg.filename), [config |-> cfg, fileTree |-> tree])

\* the record of a tool call, the tree it was made on left out
Tool(op, filename, baseDirectory, done) ==
    [Call(op, filename, baseDirectory, done) EXCEPT !.pre = <<>>]

\* the variables of the server a tool leaves, and whether it ran without a throw
Server(ok, tree, current, loaded, files, globalConfig) ==
    [ok |-> ok, fileTree |-> tree, currentConfig |-> current, loadedTrees |-> loaded,
     saved |-> files, config |-> globalConfig]

\* buildFileTree once the scan is made: the throw on an empty scan, or the save
buildFileTreeScanned(cfg, built, current, loaded, files) ==
    IF built.tree.children = <<>>
    THEN Server(FALSE, <<built.tree>>, current, loaded, files, built.config)
    ELSE Server(TRUE, <<built.tree>>, <<cfg>>, loaded,
                saveFileTree(cfg, built.tree, files), built.config)

\* buildFileTree once loadFileTree has answered
buildFileTreeLoaded(cfg, load, order, tree, current, files) ==
    IF load.ok
    THEN Server(TRUE, <<load.storage[1].fileTree>>, <<load.storage[1].config>>,
                load.loadedTrees, files, config)
    ELSE buildFileTreeScanned(cfg,
             scannedTree(disk \cup DOMAIN files, fileContent, order, cfg.baseDirectory,
                         config),
             current, load.loadedTrees, files)

buildFileTreeOf(cfg, order) ==
    buildFileTreeLoaded(cfg, loadFileTree(cfg.filename, loadedTrees, saved), order,
                        fileTree, currentConfig, saved)

\* the handler of create_file_tree once buildFileTree has returned or thrown
createdWith(cfg, built) ==
    IF built.ok THEN [built EXCEPT !.currentConfig = <<cfg>>] ELSE built

serverBecomes(state) ==
    /\ fileTree' = state.fileTree
    /\ currentConfig' = state.currentConfig
    /\ loadedTrees' = state.loadedTrees
    /\ saved' = state.saved
    /\ config' = state.config

create_file_tree(filename, baseDirectory, order) ==
    /\ LET relativeFilename == IF pathIsAbsolute(filename)
                               THEN pathRelative(Cwd, filename) ELSE filename
           cfg == createFileTreeConfig(relativeFilename, baseDirectory)
           state == createdWith(cfg, buildFileTreeOf(cfg, order))
       IN  /\ serverBecomes(state)
           /\ last' = Tool("create", filename, baseDirectory, state.ok)
    /\ UNCHANGED <<disk, fileContent, returned, asyncVars>>

select_file_tree(filename) ==
    /\ LET load == loadFileTree(filename, loadedTrees, saved)
       IN  /\ serverBecomes(
                  IF load.ok
                  THEN Server(TRUE, <<load.storage[1].fileTree>>,
                              <<load.storage[1].config>>, load.loadedTrees, saved, config)
                  ELSE Server(FALSE, fileTree, currentConfig, loadedTrees, saved, config))
           /\ last' = Tool("select", filename, 0, load.ok)
    /\ UNCHANGED <<disk, fileContent, returned, asyncVars>>

\* the handler of delete_file_tree after an unlink that found the file
deletedAt(normalizedPath) ==
    IF currentConfig # <<>> /\ currentConfig[1].filename = normalizedPath
    THEN Server(TRUE, <<>>, <<>>, loadedTrees, mapDelete(saved, normalizedPath), config)
    ELSE Server(TRUE, fileTree, currentConfig, loadedTrees,
                mapDelete(saved, normalizedPath), config)

delete_file_tree(filename) ==
    /\ LET normalizedPath == normalizeAndResolvePath(filename)
           found == normalizedPath \in DOMAIN saved
       IN  /\ serverBecomes(
                  IF found THEN deletedAt(normalizedPath)
                  ELSE Server(FALSE, fileTree, currentConfig, loadedTrees, saved, config))
           /\ last' = Tool("delete", filename, 0, found)
    /\ UNCHANGED <<disk, fileContent, returned, asyncVars>>

InitStore ==
    /\ disk = Files
    /\ fileContent = ImportsOf(<<Import("from", ImportB)>>, <<>>,
                               <<Import("from", ImportUpA)>>)
    /\ fileTree = <<>>
    /\ last = NoCall
    /\ config = <<>>
    /\ returned = <<>>
    /\ Quiet

NextStore ==
    \/ \E filename \in FilenameInputs, baseDirectory \in DirectoryInputs,
          order \in ReaddirOrders : create_file_tree(filename, baseDirectory, order)
    \/ \E filename \in FilenameInputs : select_file_tree(filename)
    \/ \E filename \in FilenameInputs : delete_file_tree(filename)

SpecStore == InitStore /\ [][NextStore]_vars

(***************************************************************************)
(* The calls in flight: addFileNode, removeFileNode and the scan, one step *)
(* from each await to the next                                             *)
(***************************************************************************)
MaxCalls == 2
CallIds == 1..MaxCalls

\* a file that does not exist, in a directory that does
FileN == Root \o <<"/", "n">> \o S_ts

\* the paths the calls in flight are made with
AsyncPaths == {FileA, FileS, FileN}

\* a call that was not made yet; `found` is what analyzeNewFile has collected,
\* `pending` the match its loop is at, `todo` the entries the scan has still to visit
IdleCall ==
    [op |-> "idle", pc |-> "idle", path |-> <<>>, order |-> "ascending",
     content |-> <<>>, found |-> NoImports, dependents |-> <<>>, pending |-> <<>>,
     todo |-> <<>>, unreadable |-> {}, failed |-> FALSE]

Started(op, pc, path) == [IdleCall EXCEPT !.op = op, !.pc = pc, !.path = path]

\* the length of the text an import statement is written with
matchLength(stmt) ==
    Len(stmt.spec) + (IF stmt.kind = "from" THEN 15
                      ELSE IF stmt.kind = "direct" THEN 9
                      ELSE IF stmt.kind = "require" THEN 11
                      ELSE 10)

\* the offset of the i-th statement of a file, one statement to the line
RECURSIVE startOf(_, _)
startOf(content, i) ==
    IF i = 1 THEN 0
    ELSE startOf(content, i - 1) + matchLength(content[i - 1]) + 1

firstFrom(content, index, i) ==
    IF i > Len(content) THEN [match |-> <<>>, lastIndex |-> 0]
    ELSE [match |-> <<content[i]>>,
          lastIndex |-> startOf(content, i) + matchLength(content[i])]

\* pattern.exec(content) of a global pattern: the first match at or after lastIndex,
\* lastIndex set behind it; no match sets lastIndex to 0
exec(content, index) ==
    firstFrom(content, index,
              Cardinality({i \in 1..Len(content) : startOf(content, i) < index}) + 1)

\* while ((match = pattern.exec(content)) !== null): up to the next match that
\* captured an import path
RECURSIVE matchedOrNext(_, _, _)
matchedOrNext(ext, content, m) ==
    IF m.match = <<>> THEN [pending |-> <<>>, lastIndex |-> 0]
    ELSE IF capturedImport(ext, m.match[1]) = <<>>
    THEN matchedOrNext(ext, content, exec(content, m.lastIndex))
    ELSE [pending |-> <<capturedImport(ext, m.match[1])>>, lastIndex |-> m.lastIndex]

nextMatch(ext, content, index) == matchedOrNext(ext, content, exec(content, index))

\* the call at the await inside the loop, or behind the loop
looping(call, step) ==
    [call |-> [call EXCEPT !.pending = step.pending,
                           !.pc = IF step.pending = <<>> THEN "attach" ELSE "matched"],
     lastIndex |-> step.lastIndex]

\* await fsPromises.readFile(filePath, 'utf-8')
readFile(d, content, filePath, fails) ==
    IF filePath \in d /\ ~fails
    THEN [ok |-> TRUE, content |-> content[filePath]]
    ELSE [ok |-> FALSE, content |-> <<>>]

\* a read that failed is tried again
afterReadRetried(call, read, index) ==
    IF ~read.ok THEN [call |-> call, lastIndex |-> index]
    ELSE looping([call EXCEPT !.content = read.content],
                 nextMatch(pathExtname(call.path), read.content, index))

\* analyzeNewFile after its read: the catch returns what was collected, nothing;
\* else the loop starts where the pattern stands
afterRead(call, read, index) ==
    IF ~read.ok
    THEN [call |-> [call EXCEPT !.failed = TRUE, !.pc = "attach"], lastIndex |-> index]
    ELSE looping([call EXCEPT !.content = read.content],
                 nextMatch(pathExtname(call.path), read.content, index))

\* the body of the loop for the match at hand, then the next exec
afterMatch(d, call, index, projectRoot) ==
    looping([call EXCEPT !.found =
                 analyzeImport(d, call.pending[1],
                     normalizePath(resolveImportPath(call.pending[1], call.path,
                                                     projectRoot)),
                     @)],
            nextMatch(pathExtname(call.path), call.content, index))

\* addFileNode up to its first await
addStarted(tree, normalizedFilePath, parentNode) ==
    IF parentNode = <<>> \/ ~nodeAt(tree, parentNode[1]).isDirectory
    THEN Started("add", "done", normalizedFilePath)
    ELSE IF hasChildWithPath(nodeAt(tree, parentNode[1]), normalizedFilePath)
    THEN Started("add", "done", normalizedFilePath)
    ELSE IF pathExtname(normalizedFilePath) \in IMPORT_PATTERNS
    THEN Started("add", "read", normalizedFilePath)
    ELSE Started("add", "attach", normalizedFilePath)

\* removeFileNode up to its first await: the guards
removeStarted(tree, normalizedFilePath, found, parentNode) ==
    IF found = <<>> \/ nodeAt(tree, found[1]).isDirectory
    THEN Started("remove", "done", normalizedFilePath)
    ELSE IF parentNode = <<>> \/ ~nodeAt(tree, parentNode[1]).isDirectory
    THEN Started("remove", "done", normalizedFilePath)
    ELSE [Started("remove", "dependers", normalizedFilePath) EXCEPT
             !.found = [NoImports EXCEPT
                           !.dependencies = nodeAt(tree, found[1]).dependencies],
             !.dependents = nodeAt(tree, found[1]).dependents]

\* the splice and updateDependentsAfterRemoval, which run before the await returns
removedFrom(tree, normalizedFilePath, found, parentNode) ==
    IF removeStarted(tree, normalizedFilePath, found, parentNode).pc = "done"
    THEN tree
    ELSE updateDependentsAfterRemoval(nodeAt(tree, found[1]).path,
             nodeAt(tree, found[1]).dependencies,
             replaceAt(tree, parentNode[1],
                       withoutChild(nodeAt(tree, parentNode[1]), normalizedFilePath)))

InFlight(c) == calls[c].pc \notin {"idle", "done"}
Scanning == \E c \in CallIds : calls[c].op = "scan" /\ InFlight(c)

callsBecome(c, call) == calls' = [calls EXCEPT ![c] = call]

\* the calls are numbered in the order they are made
IsNext(c) == calls[c].pc = "idle" /\ \A e \in 1..(c - 1) : calls[e].pc # "idle"

asyncFrame == UNCHANGED <<disk, fileContent, last, returned, storeVars>>

addFileNodeStarts(c, filePath) ==
    /\ IsNext(c)
    /\ fileTree # <<>>
    /\ ~Scanning
    /\ callsBecome(c, addStarted(fileTree[1], normalizePath(filePath),
                       findNodeByPath(fileTree[1], pathDirname(normalizePath(filePath)))))
    /\ UNCHANGED <<fileTree, config, lastIndex>>
    /\ asyncFrame

readsFile(c, fails) ==
    /\ calls[c].op = "add"
    /\ calls[c].pc = "read"
    /\ LET step == afterRead(calls[c],
                       readFile(disk, fileContent, calls[c].path, fails),
                       lastIndex[pathExtname(calls[c].path)])
       IN  /\ callsBecome(c, step.call)
           /\ lastIndex' = [lastIndex EXCEPT ![pathExtname(calls[c].path)] =
                                                 step.lastIndex]
    /\ UNCHANGED <<fileTree, config>>
    /\ asyncFrame

analyzesMatch(c) ==
    /\ calls[c].op = "add"
    /\ calls[c].pc = "matched"
    /\ LET step == afterMatch(disk, calls[c], lastIndex[pathExtname(calls[c].path)],
                              Root)
       IN  /\ callsBecome(c, step.call)
           /\ lastIndex' = [lastIndex EXCEPT ![pathExtname(calls[c].path)] =
                                                 step.lastIndex]
    /\ UNCHANGED <<fileTree, config>>
    /\ asyncFrame

\* the node analyzeNewFile's result is put in
analyzedNode(call, activeProjectRoot) ==
    FileNode(call.path, pathBasename(call.path), call.found,
             calculateInitialImportance(call.path, activeProjectRoot))

\* push, sort and updateDependentsForNewNode, up to the await of the latter
attached(tree, parentAddr, newNode) ==
    updateDependentsForNewNode(newNode.path, newNode.dependencies,
        replaceAt(tree, parentAddr, withChild(nodeAt(tree, parentAddr), newNode)))

attachesNode(c) ==
    /\ calls[c].op = "add"
    /\ calls[c].pc = "attach"
    /\ fileTree' = <<attached(fileTree[1],
                        findNodeByPath(fileTree[1], pathDirname(calls[c].path))[1],
                        analyzedNode(calls[c], Root))>>
    /\ callsBecome(c, [calls[c] EXCEPT !.pc = "rescore"])
    /\ UNCHANGED <<config, lastIndex>>
    /\ asyncFrame

removeFileNodeStarts(c, filePath) ==
    /\ IsNext(c)
    /\ fileTree # <<>>
    /\ ~Scanning
    /\ callsBecome(c, removeStarted(fileTree[1], normalizePath(filePath),
                       findNodeByPath(fileTree[1], normalizePath(filePath)),
                       findNodeByPath(fileTree[1], pathDirname(normalizePath(filePath)))))
    /\ fileTree' = <<removedFrom(fileTree[1], normalizePath(filePath),
                       findNodeByPath(fileTree[1], normalizePath(filePath)),
                       findNodeByPath(fileTree[1], pathDirname(normalizePath(filePath))))>>
    /\ UNCHANGED <<config, lastIndex>>
    /\ asyncFrame

updatesDependers(c) ==
    /\ calls[c].op = "remove"
    /\ calls[c].pc = "dependers"
    /\ fileTree' = <<updateDependersAfterRemoval(calls[c].path, calls[c].dependents,
                                                 fileTree[1])>>
    /\ callsBecome(c, [calls[c] EXCEPT !.pc = "rescore"])
    /\ UNCHANGED <<config, lastIndex>>
    /\ asyncFrame

\* the paths recalculateImportanceForAffected is called with
affectedBy(call) ==
    IF call.op = "add"
    THEN <<call.path>> \o mapSeq(call.found.dependencies, normalizePath)
    ELSE mapSeq(call.found.dependencies, normalizePath)
             \o mapSeq(call.dependents, normalizePath)

rescores(c) ==
    /\ calls[c].pc = "rescore"
    /\ fileTree' = <<recalculateImportanceForAffected(affectedBy(calls[c]), fileTree[1],
                                                      Root)>>
    /\ callsBecome(c, [calls[c] EXCEPT !.pc = "done"])
    /\ UNCHANGED <<config, lastIndex>>
    /\ asyncFrame

\* the entries of a directory the scan goes on with, in the order readdir gave
RECURSIVE keptEntries(_, _, _, _)
keptEntries(cfg, d, dir, entries) ==
    IF entries = <<>> THEN <<>>
    ELSE (IF isExcluded(cfg, d, pathNormalize(pathJoin(dir, Head(entries))), Root).excluded
          THEN <<>>
          ELSE <<pathNormalize(pathJoin(dir, Head(entries)))>>)
         \o keptEntries(cfg, d, dir, Tail(entries))

\* what the scan has read, a file that could not be read being one without imports
contentRead(content, unreadable) ==
    [f \in DOMAIN content |-> IF f \in unreadable THEN <<>> ELSE content[f]]

scanStarts(c, order) ==
    /\ IsNext(c)
    /\ \A e \in CallIds : ~InFlight(e)
    /\ callsBecome(c, [Started("scan", "scan", Root) EXCEPT !.order = order,
                                                             !.todo = <<Root>>])
    /\ UNCHANGED <<fileTree, config, lastIndex>>
    /\ asyncFrame

\* await fs.promises.readdir of the directory the scan is at
readsDirectory(c) ==
    /\ calls[c].pc = "scan"
    /\ calls[c].todo # <<>>
    /\ Head(calls[c].todo) \in Directories
    /\ callsBecome(c, [calls[c] EXCEPT !.todo =
           keptEntries(config, disk, Head(calls[c].todo),
                       readdir(disk, Head(calls[c].todo), calls[c].order))
               \o Tail(@)])
    /\ UNCHANGED <<fileTree, config, lastIndex>>
    /\ asyncFrame

\* await fs.promises.readFile of the file the scan is at
scansFile(c, fails) ==
    /\ calls[c].pc = "scan"
    /\ calls[c].todo # <<>>
    /\ Head(calls[c].todo) \notin Directories
    /\ callsBecome(c, [calls[c] EXCEPT
           !.todo = Tail(@),
           !.unreadable = IF fails THEN @ \cup {Head(calls[c].todo)} ELSE @])
    /\ UNCHANGED <<fileTree, config, lastIndex>>
    /\ asyncFrame

\* the scan has come back to the top: the graph, the scores, the active tree
scanEnds(c) ==
    /\ calls[c].pc = "scan"
    /\ calls[c].todo = <<>>
    /\ LET built == scannedTree(disk, contentRead(fileContent, calls[c].unreadable),
                                calls[c].order, Root, config)
       IN  /\ fileTree' = <<built.tree>>
           /\ config' = built.config
    /\ callsBecome(c, [calls[c] EXCEPT !.pc = "done"])
    /\ UNCHANGED lastIndex
    /\ asyncFrame

\* the step of call c that follows an await
Resumes(c) ==
    \/ \E fails \in BOOLEAN : readsFile(c, fails)
    \/ analyzesMatch(c)
    \/ attachesNode(c)
    \/ updatesDependers(c)
    \/ rescores(c)
    \/ readsDirectory(c)
    \/ \E fails \in BOOLEAN : scansFile(c, fails)
    \/ scanEnds(c)

\* the tree was scanned when b.ts was the only file; a.ts and src/a.ts were written
\* since
InitAsync ==
    /\ disk = Files
    /\ fileContent = ImportsOf(<<Import("from", ImportB), Import("from", ImportPkg)>>,
                               <<>>,
                               <<Import("from", ImportUpA)>>)
    /\ fileTree = <<scannedTree({FileB}, fileContent, "ascending", Root, <<>>).tree>>
    /\ last = NoCall
    /\ config = <<>>
    /\ returned = <<>>
    /\ calls = [c \in CallIds |-> IdleCall]
    /\ lastIndex = [ext \in IMPORT_PATTERNS |-> 0]
    /\ currentConfig = <<>>
    /\ loadedTrees = Nothing
    /\ saved = Nothing

NextAsync ==
    \/ \E c \in CallIds, filePath \in AsyncPaths : addFileNodeStarts(c, filePath)
    \/ \E c \in CallIds, filePath \in AsyncPaths : removeFileNodeStarts(c, filePath)
    \/ \E c \in CallIds, order \in ReaddirOrders : scanStarts(c, order)
    \/ \E c \in CallIds : Resumes(c)

SpecAsync == InitAsync /\ [][NextAsync]_vars

\* ENABLED <<Resumes(c)>>_vars, told from the call: a step behind an await moves the
\* call on, but for a read that leaves the call where it is
Resumable(c) ==
    /\ InFlight(c)
    /\ calls[c].pc = "read" =>
           \E fails \in BOOLEAN :
               afterRead(calls[c], readFile(disk, fileContent, calls[c].path, fails),
                         lastIndex[pathExtname(calls[c].path)])
                   # [call |-> calls[c],
                      lastIndex |-> lastIndex[pathExtname(calls[c].path)]]

\* WF_vars(Resumes(c)) with its ENABLED written as Resumable(c): every awaited file
\* operation settles, so a call that can be resumed is resumed in the end
FairlyResumed(c) == []<>(~Resumable(c)) \/ []<><<Resumes(c)>>_vars

SpecAsyncFair == SpecAsync /\ \A c \in CallIds : FairlyResumed(c)

(***************************************************************************)
(* What the properties speak of                                            *)
(***************************************************************************)
Range(s) == {s[i] : i \in 1..Len(s)}

\* the nodes and the file nodes of a tree
NodesOf(tree) == {nodeAt(tree, a) : a \in Range(traverse(tree, <<>>))}
FileNodesOf(tree) == {n \in NodesOf(tree) : ~n.isDirectory}
PathsOf(tree) == {n.path : n \in NodesOf(tree)}

\* the file nodes of a tree with the given canonical path
FilesAt(tree, path) == {n \in FileNodesOf(tree) : n.path = path}

\* graph symmetry of a tree
Symmetric(tree) ==
    \A A \in FileNodesOf(tree), B \in FileNodesOf(tree) :
        (B.path \in Range(A.dependents)) <=> (A.path \in Range(B.dependencies))

\* the last call was a removeFileNode, or an addFileNode, that ran to its end
Removed == last.op = "remove" /\ last.done
Added == last.op = "add" /\ last.done

(***************************************************************************)
(* C1.  Graph symmetry: in every state reached by a scan followed by Add   *)
(* and Remove calls, for all file nodes A and B of the tree, B.path is in  *)
(* A.dependents if and only if A.path is in B.dependencies.                *)
(***************************************************************************)
GraphSymmetry == fileTree # <<>> => Symmetric(fileTree[1])

(***************************************************************************)
(* C2.  Score bounds: in every state reached by scans, Add, Remove,        *)
(* SetImportance and RecalculateImportance calls, every file node's        *)
(* importance is an integer with 0 <= importance <= 10.                    *)
(***************************************************************************)
IsScore(importance) ==
    /\ importance % Resolution = 0
    /\ 0 <= importance /\ importance <= 10 * Resolution

ScoreBounds ==
    fileTree # <<>> => \A n \in FileNodesOf(fileTree[1]) : IsScore(n.importance)

(***************************************************************************)
(* C3.  After a successful Remove(p), p is no longer reachable in the      *)
(* tree, exactly one node was detached, and no surviving file node has p   *)
(* in its dependents or in its dependencies.                               *)
(***************************************************************************)
RemoveDetaches ==
    Removed =>
        /\ normalizePath(last.path) \notin PathsOf(fileTree[1])
        /\ Len(traverse(fileTree[1], <<>>)) + 1 = Len(traverse(last.pre[1], <<>>))
        /\ \A n \in FileNodesOf(fileTree[1]) :
              /\ normalizePath(last.path) \notin Range(n.dependents)
              /\ normalizePath(last.path) \notin Range(n.dependencies)

(***************************************************************************)
(* C4.  Add(p) and Remove(p) do not propagate: every node other than p and *)
(* the nodes p lists in its dependencies and dependents at the call keeps  *)
(* its dependencies, its dependents and its importance.                    *)
(***************************************************************************)
\* the paths p lists: of the node removed, or of the node added
NeighboursOf(tree, path) ==
    UNION {Range(n.dependencies) \cup Range(n.dependents) : n \in FilesAt(tree, path)}

Neighbours ==
    IF last.op = "remove" THEN NeighboursOf(last.pre[1], normalizePath(last.path))
    ELSE NeighboursOf(fileTree[1], normalizePath(last.path))

SameLists(n, m) ==
    /\ m.path = n.path
    /\ m.dependencies = n.dependencies
    /\ m.dependents = n.dependents
    /\ m.importance = n.importance

NotPropagating ==
    last.op \in {"add", "remove"} =>
        \A n \in NodesOf(last.pre[1]) :
            n.path # normalizePath(last.path) /\ n.path \notin Neighbours
                => \E m \in NodesOf(fileTree[1]) : SameLists(n, m)

\* a call reached a node with neighbours and a node that is none of them
PropagationCase ==
    /\ last.op \in {"add", "remove"} /\ last.done
    /\ Neighbours # {}
    /\ \E n \in FileNodesOf(last.pre[1]) :
          n.path # normalizePath(last.path) /\ n.path \notin Neighbours

(***************************************************************************)
(* C5.  Add/Remove inverse: Add of a new file that has no imports and no   *)
(* importers, followed by Remove of the same path, leaves every surviving  *)
(* node with the dependencies and dependents sets it had before the Add.   *)
(***************************************************************************)
SameEdges(before, after) ==
    /\ \A n \in FileNodesOf(after) : \E m \in FileNodesOf(before) :
          /\ m.path = n.path
          /\ Range(m.dependencies) = Range(n.dependencies)
          /\ Range(m.dependents) = Range(n.dependents)
    /\ {n.path : n \in FileNodesOf(before)} = {n.path : n \in FileNodesOf(after)}

\* the file at path is not in the tree, imports nothing and is imported by no node
NewWithoutEdges(tree, path) ==
    /\ normalizePath(path) \notin PathsOf(tree)
    /\ (normalizePath(path) \in disk => fileContent[normalizePath(path)] = <<>>)
    /\ \A n \in FileNodesOf(tree) : normalizePath(path) \notin Range(n.dependencies)

AddRemoveInverse ==
    [][(/\ Added /\ NewWithoutEdges(last.pre[1], last.path)
        /\ last'.op = "remove" /\ last'.done
        /\ normalizePath(last'.path) = normalizePath(last.path))
            => SameEdges(last.pre[1], fileTree'[1])]_vars

\* a Remove has undone the Add of a file without edges
AddRemoveDone ==
    /\ Removed /\ last.undoes
    /\ \A n \in FilesAt(last.pre[1], normalizePath(last.path)) :
          n.dependencies = <<>> /\ n.dependents = <<>>
    /\ \A n \in FileNodesOf(fileTree[1]) :
          normalizePath(last.path) \notin Range(n.dependencies)

(***************************************************************************)
(* C6.  Add(p) is a no-op when the parent directory node of p is absent or *)
(* is not a directory, and when a node with path p already exists: the     *)
(* whole tree is unchanged, so a second Add(p) leaves the tree of the      *)
(* first.  A throw of the source is an evaluation error of the model.      *)
(***************************************************************************)
AddNoOpCase(tree, path) ==
    \/ pathDirname(normalizePath(path)) \notin PathsOf(tree)
    \/ \E n \in NodesOf(tree) : n.path = pathDirname(normalizePath(path)) /\ ~n.isDirectory
    \/ normalizePath(path) \in PathsOf(tree)

AddNoOp ==
    last.op = "add" =>
        /\ AddNoOpCase(last.pre[1], last.path) => fileTree = last.pre /\ ~last.done
        /\ last.done => AddNoOpCase(fileTree[1], last.path)

\* an Add of a path the tree already holds has been made
AddOfExisting ==
    /\ last.op = "add" /\ ~last.done
    /\ normalizePath(last.path) \in {n.path : n \in FileNodesOf(last.pre[1])}

(***************************************************************************)
(* C7.  Remove(p) is a no-op when no node with path p exists, when the     *)
(* node at p is a directory, or when its parent directory node cannot be   *)
(* found: the whole tree is unchanged.  A throw of the source is an        *)
(* evaluation error of the model.                                          *)
(***************************************************************************)
RemoveNoOpCase(tree, path) ==
    \/ normalizePath(path) \notin PathsOf(tree)
    \/ \E n \in NodesOf(tree) : n.path = normalizePath(path) /\ n.isDirectory
    \/ pathDirname(normalizePath(path)) \notin PathsOf(tree)

RemoveNoOp ==
    last.op = "remove" /\ RemoveNoOpCase(last.pre[1], last.path)
        => fileTree = last.pre /\ ~last.done

\* a Remove of a directory has been made
RemoveOfDirectory ==
    /\ last.op = "remove"
    /\ \E n \in NodesOf(last.pre[1]) : n.path = normalizePath(last.path) /\ n.isDirectory

(***************************************************************************)
(* C8.  The refined score is recomputed, not accumulated: a                *)
(* RecalculateImportance made right after a scoring pass (a full scan or   *)
(* another RecalculateImportance), so on a tree whose edges have not       *)
(* changed, leaves every file's importance as that pass left it.           *)
(***************************************************************************)
SameScores(before, after) ==
    \A n \in FileNodesOf(after) :
        \A m \in FilesAt(before, n.path) : n.importance = m.importance

Recomputed ==
    [][(last.op \in {"scan", "recalculate"} /\ last'.op = "recalculate")
            => SameScores(fileTree[1], fileTree'[1])]_vars

(***************************************************************************)
(* C9.  A manual override persists until the next full rescan: once        *)
(* SetImportance(p, v) has given the file p the importance v clamped to    *)
(* [0,10], an Add, Remove or RecalculateImportance call leaves the         *)
(* importance of p at that value.                                          *)
(***************************************************************************)
Overridden(tree, path, value) ==
    /\ FilesAt(tree, normalizePath(path)) # {}
    /\ \A n \in FilesAt(tree, normalizePath(path)) : n.importance = clamp(value)

OverridePersists ==
    [][(/\ last.op = "set" /\ last.done
        /\ Overridden(fileTree[1], last.path, last.value)
        /\ last'.op \in {"add", "remove", "recalculate"}
        /\ FilesAt(fileTree'[1], normalizePath(last.path)) # {})
            => Overridden(fileTree'[1], last.path, last.value)]_vars

(***************************************************************************)
(* C10.  SetImportance(path, v) on a tree that holds a file node whose     *)
(* canonical path is path changes the importance of that file node and     *)
(* nothing else in the tree; when the tree holds no node with that path it *)
(* reports failure and changes nothing.                                    *)
(***************************************************************************)
\* a node without its subtree
Own(n) == [n EXCEPT !.children = <<>>]

ChangedOnly(before, after, path, value) ==
    \A a \in Range(traverse(before, <<>>)) :
        IF nodeAt(before, a).path = path /\ ~nodeAt(before, a).isDirectory
        THEN nodeAt(after, a) = [nodeAt(before, a) EXCEPT !.importance = clamp(value)]
        ELSE Own(nodeAt(after, a)) = Own(nodeAt(before, a))

SetChangesOnlyTarget ==
    (last.op = "set" /\ last.pre # <<>> /\ acceptsImportance(last.value)) =>
        IF FilesAt(last.pre[1], normalizePath(last.path)) # {}
        THEN /\ last.done
             /\ ChangedOnly(last.pre[1], fileTree[1], normalizePath(last.path), last.value)
        ELSE normalizePath(last.path) \notin PathsOf(last.pre[1])
                 => ~last.done /\ fileTree = last.pre

(***************************************************************************)
(* C11.  normalizePath is idempotent: normalizePath called on the string a *)
(* call of normalizePath returned gives that string back, for every input. *)
(***************************************************************************)
NormalizeIdempotent ==
    last.op = "normalizePath" => normalizePath(returned[1]) = returned[1]

(***************************************************************************)
(* C12.  normalizePath never throws: when the decoding of the input fails  *)
(* it returns the input as it came, with no slash conversion, quote        *)
(* removal or slash collapsing applied.  A throw of the source is an       *)
(* evaluation error of the model.                                          *)
(***************************************************************************)
DecodeFails(filepath) ==
    hasChar(filepath, "%") /\ ~decodeURIComponent(filepath).ok

NormalizeFailsSoft ==
    (last.op = "normalizePath" /\ DecodeFails(last.path)) => returned = <<last.path>>

\* a string that does not decode and that the later steps would have changed
UndecodableReturned ==
    /\ last.op = "normalizePath" /\ DecodeFails(last.path)
    /\ hasChar(last.path, "\\")
    /\ returned = <<last.path>>

(***************************************************************************)
(* C13.  A directory named .git or node_modules, at any depth under the    *)
(* scan root, is left out of every scan with everything below it, whether  *)
(* the config is not set, has an empty pattern list or has patterns.       *)
(***************************************************************************)
Segments(path) == Range(split(path, <<"/">>))

ScanSkipsMetadata ==
    fileTree # <<>> =>
        \A n \in NodesOf(fileTree[1]) :
            S_git \notin Segments(n.path) /\ S_node_modules \notin Segments(n.path)

\* a scan made under a pattern list of a project that holds both directories
MetadataOnDisk ==
    /\ last.op = "scan"
    /\ {FileG, FileM} \subseteq disk
    /\ config # <<>> /\ config[1].excludePatterns # <<>>
    /\ FileA \in PathsOf(fileTree[1])

(***************************************************************************)
(* C17.  The exclusion pattern list is consumed read-only: a scan, with    *)
(* every exclusion check inside it, leaves the configured list of exclude  *)
(* patterns as it was.                                                     *)
(***************************************************************************)
PatternsReadOnly == [][last'.op = "scan" => config' = config]_vars

(***************************************************************************)
(* C14.  Whenever a local import is resolved, during a full scan and       *)
(* during Add, the recorded dependency is the first existing candidate in  *)
(* the order resolved+'.ts', '.tsx', '.js', '.jsx', exact path; an import  *)
(* with no existing candidate yields no dependency.                        *)
(***************************************************************************)
\* the candidates of a resolved import, in the fixed order
Candidates(resolved) ==
    <<resolved \o S_ts, resolved \o S_tsx, resolved \o S_js, resolved \o S_jsx, resolved>>

\* the first existing candidate, as a set of at most one path
FirstExisting(d, resolved) ==
    LET hits == {i \in 1..5 : exists(d, Candidates(resolved)[i])}
    IN  IF hits = {} THEN {}
        ELSE {Candidates(resolved)[CHOOSE i \in hits : \A j \in hits : i <= j]}

\* the specifiers of the local imports a file is written with
LocalImports(content, file) ==
    {stmt.spec : stmt \in {m \in Range(content[file]) : startsWith(m.spec, <<".">>)}}

\* the dependencies a file must be recorded with
ProbedDependencies(d, content, file) ==
    UNION {FirstExisting(d, resolveImportPath(spec, file, Root)) :
               spec \in LocalImports(content, file)}

\* the file nodes the last call ran the Import Extractor on
Extracted ==
    IF last.op = "scan" THEN FileNodesOf(fileTree[1])
    ELSE IF Added /\ normalizePath(last.path) \in disk
    THEN FilesAt(fileTree[1], normalizePath(last.path))
    ELSE {}

ProbedInOrder ==
    fileTree # <<>> =>
        \A n \in Extracted :
            Range(n.dependencies) = ProbedDependencies(disk, fileContent, n.path)

\* the same statement for the full scan alone
ProbedInOrderByScan ==
    last.op = "scan" =>
        \A n \in FileNodesOf(fileTree[1]) :
            Range(n.dependencies) = ProbedDependencies(disk, fileContent, n.path)

(***************************************************************************)
(* C15.  buildDependentMap, applied to a freshly scanned tree (file nodes  *)
(* with dependencies populated and dependents empty), produces a tree with *)
(* graph symmetry between all its file nodes, leaves every node's list of  *)
(* dependencies unchanged and does not modify directory nodes; applying it *)
(* a second time changes nothing.                                          *)
(***************************************************************************)
AddressesOf(tree) == Range(traverse(tree, <<>>))

\* a node without the nodes below it
Alone(n) == [n EXCEPT !.children = <<>>]

\* the tree is as scanDirectory returns it: no file node has dependents yet
Fresh(tree) == \A n \in FileNodesOf(tree) : n.dependents = <<>>

DependentMapOf(before, after, pass) ==
    /\ Symmetric(after)
    /\ AddressesOf(after) = AddressesOf(before)
    /\ \A a \in AddressesOf(before) :
          /\ nodeAt(after, a).dependencies = nodeAt(before, a).dependencies
          /\ nodeAt(before, a).isDirectory =>
                 Alone(nodeAt(after, a)) = Alone(nodeAt(before, a))
    /\ pass = 1 => Fresh(before)
    /\ pass > 1 => after = before

DependentMapRestores ==
    last.op = "buildDependentMap" => DependentMapOf(last.pre[1], fileTree[1], last.value)

\* a second pass over a tree in which one file has two dependents
DependentMapTwice ==
    /\ last.op = "buildDependentMap"
    /\ last.value = 2
    /\ \E n \in FileNodesOf(fileTree[1]) : Len(n.dependents) = 2

(***************************************************************************)
(* C16.  After a full scan pipeline (scanDirectory, buildDependentMap,     *)
(* calculateImportance) every file's importance equals                     *)
(* min(10, initial + min(|dependents|,3) + min(|local dependencies|,2)     *)
(* + min(|sdk package deps|,2) + min(|other package deps|,1)), where       *)
(* initial is its type/location/name score and dependents and dependencies *)
(* are the sets of the data model.                                         *)
(***************************************************************************)
SdkDeps(n) == {i \in 1..Len(n.packageDependencies) : isSdk(n.packageDependencies[i])}
OtherDeps(n) == {i \in 1..Len(n.packageDependencies) : ~isSdk(n.packageDependencies[i])}

\* the refined score of a file with the given numbers of dependents and dependencies
RefinedScore(n, dependents, dependencies) ==
    Min(10 * Resolution,
        calculateInitialImportance(n.path, Root)
        + Resolution * (Min(dependents, 3) + Min(dependencies, 2)
                        + Min(Cardinality(SdkDeps(n)), 2)
                        + Min(Cardinality(OtherDeps(n)), 1)))

ScanScores ==
    last.op = "scan" =>
        \A n \in FileNodesOf(fileTree[1]) :
            n.importance = RefinedScore(n, Cardinality(Range(n.dependents)),
                                        Cardinality(Range(n.dependencies)))

\* the same statement with the lengths of the stored lists for the sizes of the sets
ScanScoresOfLists ==
    last.op = "scan" =>
        \A n \in FileNodesOf(fileTree[1]) :
            n.importance = RefinedScore(n, Len(n.dependents), Len(n.dependencies))

(***************************************************************************)
(* C18.  path is a unique key within a tree: in every state reached by a   *)
(* scan followed by any sequence of Add and Remove calls executed one at a *)
(* time, no two nodes of the tree have the same canonical path.            *)
(***************************************************************************)
CanonicalAt(tree, a) == normalizePath(nodeAt(tree, a).path)

UniqueIn(tree) ==
    \A a \in AddressesOf(tree), b \in AddressesOf(tree) :
        a # b => CanonicalAt(tree, a) # CanonicalAt(tree, b)

PathIsKey == fileTree # <<>> => UniqueIn(fileTree[1])

\* an Add called with a path that is not canonical has put its node into the tree
AddedUnderOtherSpelling ==
    /\ Added
    /\ normalizePath(last.path) # last.path
    /\ FilesAt(fileTree[1], normalizePath(last.path)) # {}

(***************************************************************************)
(* C19.  After a successful Add(p), exactly one new file node with path p  *)
(* is a child of p's parent directory node, and for every path d in the    *)
(* new node's dependencies that is a file node of the tree, p's path is in *)
(* d.dependents exactly once.                                              *)
(***************************************************************************)
Occurrences(s, x) == Cardinality({i \in 1..Len(s) : s[i] = x})

\* the children of the node with the given path that have path p
ChildrenAt(tree, parentPath, p) ==
    LET parent == findNodeByPath(tree, parentPath)
    IN  IF parent = <<>> THEN {}
        ELSE {i \in 1..Len(nodeAt(tree, parent[1]).children) :
                  nodeAt(tree, parent[1]).children[i].path = p}

AddedOnce(before, after, p) ==
    /\ Cardinality(ChildrenAt(after, pathDirname(p), p)) = 1
    /\ Cardinality(FilesAt(after, p)) = 1
    /\ p \notin PathsOf(before)
    /\ Cardinality(AddressesOf(after)) = Cardinality(AddressesOf(before)) + 1
    /\ \A n \in FilesAt(after, p) :
          \A d \in Range(n.dependencies) :
              \A m \in FilesAt(after, d) : Occurrences(m.dependents, p) = 1

AddAttachesOnce ==
    Added => AddedOnce(last.pre[1], fileTree[1], normalizePath(last.path))

\* an Add of a file that names the same file of the tree in two import statements
AddedWithRepeatedImport ==
    /\ Added
    /\ \E n \in FilesAt(fileTree[1], normalizePath(last.path)) :
          /\ Len(n.dependencies) > Cardinality(Range(n.dependencies))
          /\ \E d \in Range(n.dependencies) : FilesAt(fileTree[1], d) # {}

(***************************************************************************)
(* C20.  After a successful Add(p) the children of p's parent directory    *)
(* are ordered by name, and a later Remove of any child keeps the relative *)
(* order of the remaining children.                                        *)
(***************************************************************************)
\* the children of the node with the given path, <<>> when there is no such node
ChildrenOf(tree, path) ==
    LET found == findNodeByPath(tree, path)
    IN  IF found = <<>> THEN <<>> ELSE nodeAt(tree, found[1]).children

OrderedByName(children) ==
    \A i \in 1..(Len(children) - 1) :
        localeCompare(children[i].name, children[i + 1].name) <= 0

PathsIn(children) == [i \in 1..Len(children) |-> children[i].path]

\* the paths of the children in their order, the removed path taken out
Remaining(children, p) ==
    LET stays(path) == path # p
    IN  SelectSeq(PathsIn(children), stays)

OrderKept(before, after, p) ==
    PathsIn(ChildrenOf(after, pathDirname(p))) = Remaining(ChildrenOf(before, pathDirname(p)), p)

ChildrenInOrder ==
    /\ Added => OrderedByName(ChildrenOf(fileTree[1], pathDirname(normalizePath(last.path))))
    /\ Removed => OrderKept(last.pre[1], fileTree[1], normalizePath(last.path))

\* a Remove of the child an Add has just inserted among two or more other children
RemovedAfterAdd ==
    /\ Removed
    /\ last.undoes
    /\ Len(ChildrenOf(fileTree[1], pathDirname(normalizePath(last.path)))) >= 2

(***************************************************************************)
(* C21.  dependencies and dependents are sets: in every state reached by   *)
(* scan, Add and Remove, no file node's dependencies list and no file      *)
(* node's dependents list contains the same path twice, also when a file   *)
(* imports the same target in several import statements.                   *)
(***************************************************************************)
NoRepeat(s) == Len(s) = Cardinality(Range(s))

ListsAreSets ==
    fileTree # <<>> =>
        \A n \in FileNodesOf(fileTree[1]) :
            NoRepeat(n.dependencies) /\ NoRepeat(n.dependents)

\* the same statement for the lists of dependents alone
DependentsAreSets ==
    fileTree # <<>> => \A n \in FileNodesOf(fileTree[1]) : NoRepeat(n.dependents)

(***************************************************************************)
(* C22.  The Exclusion Filter rejects an entry only for one of its two     *)
(* stated reasons: an entry whose path has no segment named .git or        *)
(* node_modules and that matches none of the configured glob patterns (a   *)
(* file named .gitignore with an empty pattern list, say) is kept, so it   *)
(* appears in the scanned tree.                                            *)
(***************************************************************************)
\* the patterns configured when the scan ended: all a scan has tested are among them
Configured == IF config = <<>> THEN <<>> ELSE config[1].excludePatterns

\* no segment of the path is a metadata directory and no configured pattern matches
\* the path or any directory above it
Unrejected(path) ==
    /\ S_git \notin Segments(path)
    /\ S_node_modules \notin Segments(path)
    /\ \A i \in 1..Len(Configured) :
          \A n \in (Len(Root) + 2)..Len(path) :
              (n = Len(path) \/ path[n + 1] = "/") =>
                  ~matchesPattern(Configured[i], pathRelative(Root, SubSeq(path, 1, n)),
                                  pathBasename(SubSeq(path, 1, n)))

OnlyStatedReasons ==
    last.op = "scan" => \A f \in disk : Unrejected(f) => f \in PathsOf(fileTree[1])

\* the same statement for the entries in whose path '.git' occurs nowhere
OnlyStatedReasonsElsewhere ==
    last.op = "scan" =>
        \A f \in disk : (Unrejected(f) /\ ~includes(f, S_git)) => f \in PathsOf(fileTree[1])

(***************************************************************************)
(* C24.  Incremental Add agrees with a full rescan: scanning the disk      *)
(* without a file f and then calling Add(f) gives every file node, f       *)
(* included, the same dependencies and dependents as a full scan of the    *)
(* disk with f: files of the tree that import f are listed in              *)
(* f.dependents, and f's extension-less and dynamic imports resolve as     *)
(* they do in a scan.                                                      *)
(***************************************************************************)
\* the tree a full scan of the present disk gives
Rescanned == scannedTree(disk, fileContent, "ascending", Root, <<>>).tree

AddAgreesWithRescan ==
    (last.op = "add" /\ last.path \in disk) => SameEdges(Rescanned, fileTree[1])

\* the same statement for an added file that imports nothing and that no file imports
AddOfLoneFileAgrees ==
    (last.op = "add" /\ last.path \in disk /\ fileContent[last.path] = <<>>
       /\ \A n \in FileNodesOf(Rescanned) : last.path \notin Range(n.dependencies))
    => SameEdges(Rescanned, fileTree[1])

(***************************************************************************)
(* C25.  Remove-then-Add round trip: with the disk unchanged, Remove(p)    *)
(* followed by Add(p) for a file p of a scanned tree restores the graph:   *)
(* every file node, p included, has the same dependencies and dependents   *)
(* as before the Remove.                                                   *)
(***************************************************************************)
\* the tree is one a scan of the present disk returns
IsScanned(tree) ==
    \E order \in ReaddirOrders : tree = scannedTree(disk, fileContent, order, Root, <<>>).tree

\* the step is an Add of the path that the Remove before it took out of a scanned tree
ReAdds ==
    /\ Removed
    /\ last'.op = "add" /\ last'.done
    /\ normalizePath(last'.path) = normalizePath(last.path)
    /\ IsScanned(last.pre[1])

RemoveAddRestores == [][ReAdds => SameEdges(last.pre[1], fileTree'[1])]_vars

(***************************************************************************)
(* C26.  Score consistency for all nodes: in every state reached by a full *)
(* scan pipeline followed by any sequence of Add and Remove calls, every   *)
(* file node of the tree, not only the direct neighbours of the last       *)
(* change, has importance equal to the refined score computed from its own *)
(* current dependents, dependencies and packageDependencies.               *)
(***************************************************************************)
ScoresCurrent ==
    fileTree # <<>> =>
        \A n \in FileNodesOf(fileTree[1]) :
            n.importance = RefinedScore(n, Cardinality(Range(n.dependents)),
                                        Cardinality(Range(n.dependencies)))

\* the same statement with the lengths of the stored lists for the sizes of the sets
ScoresCurrentOfLists ==
    fileTree # <<>> =>
        \A n \in FileNodesOf(fileTree[1]) :
            n.importance = RefinedScore(n, Len(n.dependents), Len(n.dependencies))

(***************************************************************************)
(* C29.  After delete_file_tree(f) succeeds, the deleted tree is gone: if  *)
(* f was the active tree, the active tree and the active config are        *)
(* cleared, and a later select_file_tree(f) or create_file_tree(f, dir)    *)
(* does not return the deleted tree from the cache of loaded trees.        *)
(***************************************************************************)
\* the tree file a filename given to a tool stands for
TreeFileOf(filename) == pathJoin(Cwd, createFileTreeConfig(filename, Root).filename)

\* the step deletes the tree file of the active tree
DeletesActive ==
    /\ last'.op = "delete" /\ last'.done
    /\ currentConfig # <<>>
    /\ TreeFileOf(currentConfig[1].filename) = TreeFileOf(last'.path)

\* the step is a select or a create that ran to its end
Selects == last'.op = "select" /\ last'.done
Creates == last'.op = "create" /\ last'.done

DeletedIsGone ==
    [][/\ DeletesActive => (fileTree' = <<>> /\ currentConfig' = <<>>)
       /\ Selects => TreeFileOf(last'.path) \in DOMAIN saved'
       /\ Creates => TreeFileOf(last'.path) \in DOMAIN saved']_vars

\* the part of the statement about the active tree
DeletedActiveIsCleared ==
    [][DeletesActive => (fileTree' = <<>> /\ currentConfig' = <<>>)]_vars

\* the part of the statement about the cache
DeletedIsNotLoaded ==
    [][/\ Selects => TreeFileOf(last'.path) \in DOMAIN saved'
       /\ Creates => TreeFileOf(last'.path) \in DOMAIN saved']_vars

(***************************************************************************)
(* C30.  The active config always describes the active tree: in every      *)
(* state reached by create_file_tree, select_file_tree and                 *)
(* delete_file_tree calls in which a tree is active, the active config's   *)
(* baseDirectory is the directory the active tree was scanned from, also   *)
(* when create_file_tree(f, dir) is called with a filename that already    *)
(* holds a saved tree for another directory.                               *)
(***************************************************************************)
ConfigDescribesTree ==
    (fileTree # <<>> /\ currentConfig # <<>>) =>
        currentConfig[1].baseDirectory = fileTree[1].path

(***************************************************************************)
(* C27.  Two overlapping Add(p) calls for the same path, interleaved at    *)
(* their await points, still end with exactly one child of the parent      *)
(* whose path is p.                                                        *)
(***************************************************************************)
AddsOf(p) == {c \in CallIds : calls[c].op = "add" /\ calls[c].path = p}

OverlappingAddsAttachOnce ==
    \A p \in AsyncPaths :
        (/\ Cardinality(AddsOf(p)) = 2
         /\ \A c \in AddsOf(p) : calls[c].pc = "done")
        => Cardinality(ChildrenAt(fileTree[1], pathDirname(p), p)) = 1

(***************************************************************************)
(* C28.  Two overlapping calls Add(p) and Add(q) of different files with   *)
(* the same extension record for each file the dependencies and            *)
(* packageDependencies that the two calls record when run one after the    *)
(* other: the pattern they share carries no state from one call into the   *)
(* other.                                                                  *)
(***************************************************************************)
\* call c has read its file and is behind its loop, next to another Add
AnalyzedBeside(c, e) ==
    /\ calls[c].op = "add" /\ calls[c].pc = "rescore" /\ ~calls[c].failed
    /\ calls[e].op = "add" /\ calls[e].path # calls[c].path
    /\ pathExtname(calls[e].path) = pathExtname(calls[c].path)

OverlappingAddsAnalyzeAlike ==
    \A c, e \in CallIds :
        AnalyzedBeside(c, e)
        => calls[c].found = analyzeNewFile(disk, fileContent, calls[c].path, Root)

\* an Add that no other Add runs beside records what analyzeNewFile finds alone
LoneAddAnalyzes ==
    \A c \in CallIds :
        (/\ calls[c].op = "add" /\ calls[c].pc = "rescore" /\ ~calls[c].failed
         /\ \A e \in CallIds \ {c} : calls[e].op # "add")
        => calls[c].found = analyzeNewFile(disk, fileContent, calls[c].path, Root)

(***************************************************************************)
(* C23.  Scan, Add and Remove each terminate when the awaited file         *)
(* operations are scheduled fairly: every call in flight reaches its end,  *)
(* a file that cannot be read is taken to have no dependencies and is not  *)
(* read again, and every iteration of Add's matching loop moves the        *)
(* pattern forward in the content or leaves the loop.                      *)
(***************************************************************************)
PatternOf(c) == lastIndex[pathExtname(calls[c].path)]

LoopAdvances ==
    \A c \in CallIds :
        analyzesMatch(c) =>
            \/ lastIndex'[pathExtname(calls[c].path)] > PatternOf(c)
            \/ calls'[c].pc = "attach"

CallsTerminate ==
    /\ \A c \in CallIds : InFlight(c) ~> (calls[c].pc = "done")
    /\ [][LoopAdvances]_vars

\* a scan that could not read a file and an Add that went through its loop have ended
CallsEnded ==
    /\ \A c \in CallIds : calls[c].pc = "done"
    /\ \E c \in CallIds : calls[c].op = "scan" /\ calls[c].unreadable # {}
    /\ \E c \in CallIds : calls[c].op = "add" /\ calls[c].found.dependencies # <<>>

====
